---- MODULE Spec2Model ----
(***************************************************************************)
(* sigmax::MpscQueue<T, C> (src/src/sigmax/mpsc_queue.hpp): a bounded      *)
(* multi-producer / single-consumer ring queue synchronised by one         *)
(* sequence word per cell.                                                 *)
(*                                                                         *)
(* Every access to an atomic (m_head, m_tail, Cell::sequence, the two      *)
(* counters) is one step of the thread that performs it; the source uses   *)
(* the default std::memory_order_seq_cst for all of them except the        *)
(* counters' fetch_add, so the interleaving of these steps is the set of   *)
(* executions.  The payload (Cell::data) is a plain object: an access      *)
(* that conflicts with a write another thread is about to perform is a     *)
(* data race and yields any value (Torn included).                         *)
(*                                                                         *)
(* A pushed element is the pair <<producer, k>> for the producer's k-th    *)
(* call, so that every value returned by Pop can be traced to its call.    *)
(***************************************************************************)
EXTENDS Integers, Sequences, FiniteSets, TLC

\* Bound of the model: the total number of PushBack calls of a run.
MaxPushCalls == 5

\* The producer threads; the single consumer thread is not named.
Producers == {1, 2}

\* Capacities C the template is instantiated with in Spec.
Capacities == {2}

SUCCESS == "SUCCESS"
QUEUE_IS_EMPTY == "QUEUE_IS_EMPTY"
QUEUE_IS_FULL == "QUEUE_IS_FULL"
NONE == "NONE"

\* T{}: the value-initialised payload of a cell nobody has written.
DefaultT == <<0, 0>>
\* The outcome of a racing (unsynchronised) payload access.
Torn == <<-1, -1>>
\* T(QueueState::QUEUE_IS_EMPTY).  Pop returns std::expected<T, QueueState>
\* and its failing branch returns the bare enumerator, not std::unexpected of
\* it: the converting constructor of std::expected builds the value
\* alternative from it, through T's constructor from QueueState (the pair is
\* a mark for that constructor and the enumerator's number).  For a T with
\* no such constructor (int, Order) Pop does not instantiate.
EmptyAsValue == <<-2, 1>>

VARIABLES
    wordBits,       \* the width w of std::size_t and std::int64_t (constant)
    m_buffer_mask,  \* const std::size_t, set to C by the constructor
    m_data,         \* std::array<Cell, C>: [0..C-1 -> [data, sequence]]
    m_head,
    m_tail,
    m_pushCount,
    m_popCount,
    p_pc,           \* per producer: where it stands in PushBack
    p_pos,          \* PushBack's local pos
    p_seq,          \* PushBack's local seq
    p_element,      \* PushBack's argument
    p_ret,          \* what the producer's last PushBack returned
    c_pc,           \* where the consumer stands in Pop
    c_pos,          \* Pop's local pos
    c_seq,          \* Pop's local seq
    c_data,         \* Pop's local data
    c_ret,          \* what the last Pop returned: <<state, value>>, the state
                    \* SUCCESS when the std::expected holds a value
    calls,          \* history: number of PushBack calls of each producer
    reserved,       \* history: <<pos, element>> per successful head CAS, in order
    committed,      \* history: <<pos, element>> per publishing store, in order
    popped,         \* history: <<pos, value>> per payload Pop took out of a
                    \* cell and returned, in order
    rearmed,        \* history: pos per re-arm store of Pop, in order
    fifo,           \* the abstract bounded FIFO (sequential runs only)
    expect          \* what the abstract FIFO answers to the call in progress

queueVars == <<wordBits, m_buffer_mask, m_data, m_head, m_tail, m_pushCount, m_popCount>>
prodVars == <<p_pc, p_pos, p_seq, p_element, p_ret>>
consVars == <<c_pc, c_pos, c_seq, c_data, c_ret>>
histVars == <<calls, reserved, committed, popped, rearmed>>
absVars == <<fifo, expect>>

\* The benchmark executable (src/benchmarks/mpsc_queue_benchmark.cpp): main,
\* RunBenchmark with its writer and reader threads, SaveBenchmarkResults.
VARIABLES
    h_pc,       \* the statement the main thread is at
    h_args,     \* the command line: [wellFormed, queueSize, producerCount]
    h_queue,    \* RunBenchmark's local QueueType queue: "none", "alive", "destroyed"
    h_gate,     \* go.set_value() has been executed
    h_stop,     \* RunBenchmark's local bool stop
    w_st,       \* per writer thread: "none", "wait", "loop", "done"
    r_st,       \* the reader thread: "none", "wait", "loop", "done"
    r_ret,      \* the reader's count of the Pops that returned a value
                \* (successfullPops; successfulPopCount in the tests)
    h_record,   \* singleBenchmarkResult: <<run, producerCount, successfulPops>>
    h_saved,    \* SaveBenchmarkResults has returned true in this run
    h_exit,     \* the exit code of main, -1 while it runs
    h_file,     \* the records under "benchmarkResults" in the file at the results path
    h_before,   \* history: the file's records when this run of the executable began
    h_run       \* history: the number of this run of the executable

benchVars == <<h_pc, h_args, h_queue, h_gate, h_stop, w_st, r_st, r_ret,
               h_record, h_saved, h_exit, h_file, h_before, h_run>>
libVars == <<queueVars, prodVars, consVars, histVars, absVars>>

\* The legacy queue (src/unnamed/part_007): a ring that overwrites its
\* oldest element when full, used by one thread.
VARIABLES
    l_capacity, \* the template parameter C (constant)
    l_data,     \* std::array<T, C> m_data: [0..C-1 -> T]
    l_head,     \* m_head
    l_tail,     \* m_tail
    l_size,     \* m_size
    l_ret,      \* the last call: [op, out, expect]
    l_count,    \* history: the number of PushBack calls so far
    l_streak,   \* history: the number of PushBack calls since the last Pop or Flush
    l_fifo      \* the abstract overwrite-on-full FIFO: the pending elements

legacyVars == <<l_capacity, l_data, l_head, l_tail, l_size, l_ret, l_count, l_streak, l_fifo>>
vars == <<queueVars, prodVars, consVars, histVars, absVars, benchVars, legacyVars>>

----------------------------------------------------------------------------
\* Helpers

RECURSIVE SumCalls(_, _)
SumCalls(f, S) ==
    IF S = {} THEN 0
    ELSE LET x == CHOOSE y \in S : TRUE IN f[x] + SumCalls(f, S \ {x})

TotalCalls == SumCalls(calls, Producers)

\* pos % m_buffer_mask
CellIndex(pos) == pos % m_buffer_mask

\* The width of the machine's std::size_t and std::int64_t.  The values of a
\* run on the 64-bit machine stay far below 2^31 within the bounds of the
\* model, where reduction modulo 2^64 changes nothing; a narrower word is
\* reduced modulo 2^wordBits.
FullWidth == 64
Narrow == wordBits < 31
WordMod == 2 ^ wordBits

\* Unsigned (std::size_t) arithmetic: the result modulo 2^w.
Wrap(x) == IF Narrow THEN x % WordMod ELSE x

\* static_cast<std::int64_t>(x) of an unsigned word: its two's-complement value.
ToSigned(x) == IF Narrow /\ x >= WordMod \div 2 THEN x - WordMod ELSE x

\* The int64_t range holds d.
InSignedRange(d) == ~Narrow \/ (d >= -(WordMod \div 2) /\ d < WordMod \div 2)

\* What a - b of two std::int64_t can yield: the difference when the range
\* holds it; on signed overflow (undefined behaviour) either the wrapped
\* difference, or the exact one, whose sign a build gets by folding
\* "a - b < 0" into "a < b".
SignedSub(a, b) ==
    LET d == a - b
    IN IF InSignedRange(d)
       THEN {d}
       ELSE {d, ToSigned(d % WordMod)}

\* static_cast<std::int64_t>(seq) - static_cast<std::int64_t>(pos) in PushBack
PushDiff(seq, pos) == SignedSub(ToSigned(seq), ToSigned(pos))

\* Mutant of PopDiff: the "+ 1" is left out, as in a copy of PushBack's line.
PopDiff_NoPlusOne(seq, pos) == SignedSub(ToSigned(seq), ToSigned(pos))

\* static_cast<std::int64_t>(seq) - static_cast<std::int64_t>(pos + 1) in Pop
PopDiff(seq, pos) == SignedSub(ToSigned(seq), ToSigned(Wrap(pos + 1)))

\* Mutant of RearmValue: m_buffer_mask taken for the bit mask C - 1.
RearmValue_MaskMinusOne(pos) == Wrap(pos + (m_buffer_mask - 1))

\* m_data[pos % m_buffer_mask].sequence.store(pos + m_buffer_mask)
RearmValue(pos) == Wrap(pos + m_buffer_mask)

\* Mutant of PublishValue: the "+ 1" left out, the cell is never published.
PublishValue_NoPlusOne(pos) == Wrap(pos)

\* m_data.at(pos % m_buffer_mask).sequence.store(pos + 1)
PublishValue(pos) == Wrap(pos + 1)

\* The constructor's loop: m_data[i].sequence.store(i), payloads T{}.
InitCells(C) == [i \in 0..(C - 1) |-> [data |-> DefaultT, sequence |-> i]]

\* The last position below base that cell i has held: the largest p < base
\* with p % C = i (there is one when i < base).
LastPositionOf(C, base, i) == base - 1 - ((base - 1 - i) % C)

\* The cells of a queue on which base PushBacks and base Pops have completed,
\* one after the other, producer 1 pushing its elements 1, 2, ...: cell i is
\* re-armed for the position p in base .. base + C - 1 with p % C = i, and
\* it still holds the last payload written to it, since Pop copies the
\* payload out of the cell and leaves it there.
CellsAfter(C, base) ==
    [i \in 0..(C - 1) |->
        [data |-> IF i < base
                  THEN <<1, LastPositionOf(C, base, i) + 1>>
                  ELSE DefaultT,
         sequence |-> Wrap(base + ((i + C - (base % C)) % C))]]

\* Producers other than p that are about to write the payload of cell i.
WritersOf(i, p) ==
    {q \in Producers \ {p} : p_pc[q] = "write" /\ CellIndex(p_pos[q]) = i}

Quiescent == c_pc = "idle" /\ \A p \in Producers : p_pc[p] = "idle"

Range(s) == {s[i] : i \in DOMAIN s}

\* The answer of no call: nothing is expected of the abstract FIFO.
NoExpect == <<-1, NONE, DefaultT>>

----------------------------------------------------------------------------
\* Construction

\* The threads and the history at the start of a run.
InitThreads ==
    /\ p_pc = [p \in Producers |-> "idle"]
    /\ p_pos = [p \in Producers |-> 0]
    /\ p_seq = [p \in Producers |-> 0]
    /\ p_element = [p \in Producers |-> DefaultT]
    /\ p_ret = [p \in Producers |-> NONE]
    /\ c_pc = "idle"
    /\ c_pos = 0
    /\ c_seq = 0
    /\ c_data = DefaultT
    /\ c_ret = <<NONE, DefaultT>>
    /\ calls = [p \in Producers |-> 0]
    /\ reserved = <<>>
    /\ committed = <<>>
    /\ popped = <<>>
    /\ rearmed = <<>>
    /\ fifo = <<>>
    /\ expect = NoExpect

\* The queue is used on its own (by the tests): no benchmark executable runs.
NoBenchmark ==
    /\ h_pc = "none"
    /\ h_args = [wellFormed |-> TRUE, queueSize |-> 0, producerCount |-> 0]
    /\ h_queue = "alive"
    /\ h_gate = TRUE
    /\ h_stop = FALSE
    /\ w_st = [p \in Producers |-> "none"]
    /\ r_st = "none"
    /\ r_ret = 0
    /\ h_record = <<>>
    /\ h_saved = FALSE
    /\ h_exit = -1
    /\ h_file = <<>>
    /\ h_before = <<>>
    /\ h_run = 0

\* The legacy queue is not used.
NoLegacy ==
    /\ l_capacity = 0
    /\ l_data = <<>>
    /\ l_head = 0
    /\ l_tail = 0
    /\ l_size = 0
    /\ l_ret = [op |-> "none", state |-> NONE, value |-> <<>>, expect |-> <<NONE>>]
    /\ l_count = 0
    /\ l_streak = 0
    /\ l_fifo = <<>>

\* A queue of one of the capacities caps, as the constructor leaves it.
InitQueue(caps) ==
    /\ wordBits = FullWidth
    /\ m_buffer_mask \in caps
    /\ m_data = InitCells(m_buffer_mask)
    /\ m_head = 0
    /\ m_tail = 0
    /\ m_pushCount = 0
    /\ m_popCount = 0
    /\ InitThreads

InitWith(caps) == InitQueue(caps) /\ NoBenchmark /\ NoLegacy

Init == InitWith(Capacities)

----------------------------------------------------------------------------
\* PushBack(const T &element), one action per shared-memory access

\* A producer calls PushBack with its next element.
PushBack_Call(p) ==
    /\ p_pc[p] = "idle"
    /\ TotalCalls < MaxPushCalls
    /\ calls' = [calls EXCEPT ![p] = @ + 1]
    /\ p_element' = [p_element EXCEPT ![p] = <<p, calls[p] + 1>>]
    /\ p_pc' = [p_pc EXCEPT ![p] = "load_head"]
    /\ p_ret' = [p_ret EXCEPT ![p] = NONE]
    /\ UNCHANGED <<queueVars, p_pos, p_seq, consVars, benchVars, legacyVars>>
    /\ UNCHANGED <<reserved, committed, popped, rearmed>>

\* pos = m_head.load()  (before the loop, and in the diff > 0 branch)
PushBack_LoadHead(p) ==
    /\ p_pc[p] = "load_head"
    /\ p_pos' = [p_pos EXCEPT ![p] = m_head]
    /\ p_pc' = [p_pc EXCEPT ![p] = "load_seq"]
    /\ UNCHANGED <<queueVars, p_seq, p_element, p_ret, consVars, histVars, absVars, benchVars, legacyVars>>

\* Mutant of PushBack_LoadSeq: a blocking PushBack, which polls the cell again
\* instead of returning QUEUE_IS_FULL.
PushBack_LoadSeq_SpinOnFull(p) ==
    /\ p_pc[p] = "load_seq"
    /\ LET seq == m_data[CellIndex(p_pos[p])].sequence
       IN \E diff \in PushDiff(seq, p_pos[p]) :
          /\ p_seq' = [p_seq EXCEPT ![p] = seq]
          /\ IF diff = 0
             THEN p_pc' = [p_pc EXCEPT ![p] = "cas"]
             ELSE p_pc' = [p_pc EXCEPT ![p] = "load_head"]
    /\ UNCHANGED <<queueVars, p_pos, p_element, p_ret, consVars, histVars, absVars, benchVars, legacyVars>>

\* Mutant of PushBack_LoadSeq: a cell still occupied from the previous lap is
\* claimed all the same (overwrite on full) instead of returning QUEUE_IS_FULL.
PushBack_LoadSeq_Overwrite(p) ==
    /\ p_pc[p] = "load_seq"
    /\ LET seq == m_data[CellIndex(p_pos[p])].sequence
           diff == seq - p_pos[p]
       IN /\ p_seq' = [p_seq EXCEPT ![p] = seq]
          /\ IF diff <= 0
             THEN p_pc' = [p_pc EXCEPT ![p] = "cas"]
             ELSE p_pc' = [p_pc EXCEPT ![p] = "load_head"]
    /\ UNCHANGED <<queueVars, p_pos, p_element, p_ret, consVars, histVars, absVars, benchVars, legacyVars>>

\* seq = sequence.load(); diff = seq - pos; the three-way branch
PushBack_LoadSeq(p) ==
    /\ p_pc[p] = "load_seq"
    /\ LET seq == m_data[CellIndex(p_pos[p])].sequence
       IN \E diff \in PushDiff(seq, p_pos[p]) :
          /\ p_seq' = [p_seq EXCEPT ![p] = seq]
          /\ IF diff = 0
             THEN /\ p_pc' = [p_pc EXCEPT ![p] = "cas"]
                  /\ UNCHANGED p_ret
             ELSE IF diff < 0
             THEN /\ p_pc' = [p_pc EXCEPT ![p] = "idle"]
                  /\ p_ret' = [p_ret EXCEPT ![p] = QUEUE_IS_FULL]
             ELSE /\ p_pc' = [p_pc EXCEPT ![p] = "load_head"]
                  /\ UNCHANGED p_ret
    /\ UNCHANGED <<queueVars, p_pos, p_element, consVars, histVars, absVars, benchVars, legacyVars>>

\* Mutant of PushBack_Cas: m_head.store(pos + 1) in place of the compare-exchange.
PushBack_Cas_Store(p) ==
    /\ p_pc[p] = "cas"
    /\ m_head' = Wrap(p_pos[p] + 1)
    /\ p_pc' = [p_pc EXCEPT ![p] = "write"]
    /\ reserved' = Append(reserved, <<p_pos[p], p_element[p]>>)
    /\ UNCHANGED <<wordBits, m_buffer_mask, m_data, m_tail, m_pushCount, m_popCount>>
    /\ UNCHANGED <<p_pos, p_seq, p_element, p_ret, consVars>>
    /\ UNCHANGED <<calls, committed, popped, rearmed, absVars, benchVars, legacyVars>>

\* m_head.compare_exchange_strong(pos, pos + 1)
PushBack_Cas(p) ==
    /\ p_pc[p] = "cas"
    /\ IF m_head = p_pos[p]
       THEN /\ m_head' = Wrap(p_pos[p] + 1)
            /\ p_pc' = [p_pc EXCEPT ![p] = "write"]
            /\ reserved' = Append(reserved, <<p_pos[p], p_element[p]>>)
            /\ UNCHANGED p_pos
       ELSE /\ p_pos' = [p_pos EXCEPT ![p] = m_head]
            /\ p_pc' = [p_pc EXCEPT ![p] = "load_seq"]
            /\ UNCHANGED <<m_head, reserved>>
    /\ UNCHANGED <<wordBits, m_buffer_mask, m_data, m_tail, m_pushCount, m_popCount>>
    /\ UNCHANGED <<p_seq, p_element, p_ret, consVars>>
    /\ UNCHANGED <<calls, committed, popped, rearmed, absVars, benchVars, legacyVars>>

\* Mutant of PushBack_WriteData: the payload goes to the cell after the reserved one.
PushBack_WriteData_OffByOne(p) ==
    /\ p_pc[p] = "write"
    /\ m_data' = [m_data EXCEPT ![CellIndex(p_pos[p] + 1)].data = p_element[p]]
    /\ p_pc' = [p_pc EXCEPT ![p] = "store"]
    /\ UNCHANGED <<wordBits, m_buffer_mask, m_head, m_tail, m_pushCount, m_popCount>>
    /\ UNCHANGED <<p_pos, p_seq, p_element, p_ret, consVars, histVars, absVars, benchVars, legacyVars>>

\* Mutant of PushBack_WriteData: m_pushCount is incremented with the payload
\* write, before the publishing store.
PushBack_WriteData_CountsEarly(p) ==
    /\ p_pc[p] = "write"
    /\ m_data' = [m_data EXCEPT ![CellIndex(p_pos[p])].data = p_element[p]]
    /\ m_pushCount' = Wrap(m_pushCount + 1)
    /\ p_pc' = [p_pc EXCEPT ![p] = "store"]
    /\ UNCHANGED <<wordBits, m_buffer_mask, m_head, m_tail, m_popCount>>
    /\ UNCHANGED <<p_pos, p_seq, p_element, p_ret, consVars, histVars, absVars, benchVars, legacyVars>>

\* m_data.at(pos % m_buffer_mask).data = element
PushBack_WriteData(p) ==
    /\ p_pc[p] = "write"
    /\ LET i == CellIndex(p_pos[p])
           racing == WritersOf(i, p) # {} \/ (c_pc = "read" /\ CellIndex(c_pos) = i)
       IN \E v \in (IF racing THEN {p_element[p], Torn} ELSE {p_element[p]}) :
              m_data' = [m_data EXCEPT ![i].data = v]
    /\ p_pc' = [p_pc EXCEPT ![p] = "store"]
    /\ UNCHANGED <<wordBits, m_buffer_mask, m_head, m_tail, m_pushCount, m_popCount>>
    /\ UNCHANGED <<p_pos, p_seq, p_element, p_ret, consVars, histVars, absVars, benchVars, legacyVars>>

\* m_data.at(pos % m_buffer_mask).sequence.store(pos + 1)
PushBack_StoreSeq(p) ==
    /\ p_pc[p] = "store"
    /\ m_data' = [m_data EXCEPT ![CellIndex(p_pos[p])].sequence = PublishValue(p_pos[p])]
    /\ committed' = Append(committed, <<p_pos[p], p_element[p]>>)
    /\ p_pc' = [p_pc EXCEPT ![p] = "count"]
    /\ UNCHANGED <<wordBits, m_buffer_mask, m_head, m_tail, m_pushCount, m_popCount>>
    /\ UNCHANGED <<p_pos, p_seq, p_element, p_ret, consVars>>
    /\ UNCHANGED <<calls, reserved, popped, rearmed, absVars, benchVars, legacyVars>>

\* m_pushCount.fetch_add(1); return QueueState::SUCCESS
PushBack_Return(p) ==
    /\ p_pc[p] = "count"
    /\ m_pushCount' = Wrap(m_pushCount + 1)
    /\ p_pc' = [p_pc EXCEPT ![p] = "idle"]
    /\ p_ret' = [p_ret EXCEPT ![p] = SUCCESS]
    /\ UNCHANGED <<wordBits, m_buffer_mask, m_data, m_head, m_tail, m_popCount>>
    /\ UNCHANGED <<p_pos, p_seq, p_element, consVars, histVars, absVars, benchVars, legacyVars>>

----------------------------------------------------------------------------
\* Pop(), one action per shared-memory access

\* The consumer calls Pop.
Pop_Call ==
    /\ c_pc = "idle"
    /\ c_pc' = "load_tail"
    /\ c_ret' = <<NONE, DefaultT>>
    /\ UNCHANGED <<queueVars, prodVars, c_pos, c_seq, c_data, histVars, benchVars, legacyVars>>

\* pos = m_tail.load()  (before the loop, and in the diff > 0 branch)
Pop_LoadTail ==
    /\ c_pc = "load_tail"
    /\ c_pos' = m_tail
    /\ c_pc' = "load_seq"
    /\ UNCHANGED <<queueVars, prodVars, c_seq, c_data, c_ret, histVars, absVars, benchVars, legacyVars>>

\* Mutant of Pop_LoadSeq: the failing branch counts the call as a Pop.
Pop_LoadSeq_CountsEmpty ==
    /\ c_pc = "load_seq"
    /\ LET seq == m_data[CellIndex(c_pos)].sequence
       IN \E diff \in PopDiff(seq, c_pos) :
          /\ c_seq' = seq
          /\ IF diff = 0
             THEN /\ c_pc' = "cas"
                  /\ UNCHANGED <<c_ret, m_popCount>>
             ELSE IF diff < 0
             THEN /\ c_pc' = "idle"
                  /\ c_ret' = <<SUCCESS, EmptyAsValue>>
                  /\ m_popCount' = Wrap(m_popCount + 1)
             ELSE /\ c_pc' = "load_tail"
                  /\ UNCHANGED <<c_ret, m_popCount>>
    /\ UNCHANGED <<wordBits, m_buffer_mask, m_data, m_head, m_tail, m_pushCount>>
    /\ UNCHANGED <<prodVars, c_pos, c_data, histVars, absVars, benchVars, legacyVars>>

\* seq = sequence.load(); diff = seq - (pos + 1); the three-way branch.
\* The diff < 0 branch is "return QueueState::QUEUE_IS_EMPTY;": the caller
\* gets a std::expected that holds the value T(QUEUE_IS_EMPTY), has_value()
\* true, and no error.
Pop_LoadSeq_Step ==
    /\ c_pc = "load_seq"
    /\ LET seq == m_data[CellIndex(c_pos)].sequence
       IN \E diff \in PopDiff(seq, c_pos) :
          /\ c_seq' = seq
          /\ IF diff = 0
             THEN /\ c_pc' = "cas"
                  /\ UNCHANGED c_ret
             ELSE IF diff < 0
             THEN /\ c_pc' = "idle"
                  /\ c_ret' = <<SUCCESS, EmptyAsValue>>
             ELSE /\ c_pc' = "load_tail"
                  /\ UNCHANGED c_ret
    /\ UNCHANGED <<queueVars, prodVars, c_pos, c_data, histVars, absVars, legacyVars>>

\* The same step of a caller that keeps nothing of its own.
Pop_LoadSeq == Pop_LoadSeq_Step /\ UNCHANGED benchVars

\* m_tail.compare_exchange_strong(pos, pos + 1)
Pop_Cas ==
    /\ c_pc = "cas"
    /\ IF m_tail = c_pos
       THEN /\ m_tail' = Wrap(c_pos + 1)
            /\ c_pc' = "read"
            /\ UNCHANGED c_pos
       ELSE /\ c_pos' = m_tail
            /\ c_pc' = "load_seq"
            /\ UNCHANGED m_tail
    /\ UNCHANGED <<wordBits, m_buffer_mask, m_data, m_head, m_pushCount, m_popCount>>
    /\ UNCHANGED <<prodVars, c_seq, c_data, c_ret, histVars, absVars, benchVars, legacyVars>>

\* const auto data = m_data[pos % m_buffer_mask].data
Pop_ReadData ==
    /\ c_pc = "read"
    /\ LET i == CellIndex(c_pos)
           racing == WritersOf(i, 0) # {}
       IN \E v \in (IF racing THEN {m_data[i].data, Torn} ELSE {m_data[i].data}) :
              c_data' = v
    /\ c_pc' = "store"
    /\ UNCHANGED <<queueVars, prodVars, c_pos, c_seq, c_ret, histVars, absVars, benchVars, legacyVars>>

\* m_data[pos % m_buffer_mask].sequence.store(pos + m_buffer_mask)
Pop_StoreSeq ==
    /\ c_pc = "store"
    /\ m_data' = [m_data EXCEPT ![CellIndex(c_pos)].sequence = RearmValue(c_pos)]
    /\ rearmed' = Append(rearmed, c_pos)
    /\ c_pc' = "count"
    /\ UNCHANGED <<wordBits, m_buffer_mask, m_head, m_tail, m_pushCount, m_popCount>>
    /\ UNCHANGED <<prodVars, c_pos, c_seq, c_data, c_ret>>
    /\ UNCHANGED <<calls, reserved, committed, popped, absVars, benchVars, legacyVars>>

\* m_popCount.fetch_add(1); return data
Pop_Return_Step ==
    /\ c_pc = "count"
    /\ m_popCount' = Wrap(m_popCount + 1)
    /\ c_pc' = "idle"
    /\ c_ret' = <<SUCCESS, c_data>>
    /\ popped' = Append(popped, <<c_pos, c_data>>)
    /\ UNCHANGED <<wordBits, m_buffer_mask, m_data, m_head, m_tail, m_pushCount>>
    /\ UNCHANGED <<prodVars, c_pos, c_seq, c_data>>
    /\ UNCHANGED <<calls, reserved, committed, rearmed, absVars, legacyVars>>

\* The same step of a caller that keeps nothing of its own.
Pop_Return == Pop_Return_Step /\ UNCHANGED benchVars

----------------------------------------------------------------------------
\* Concurrent runs: any number of producers and the consumer interleave.

ProducerCall(p) == PushBack_Call(p) /\ UNCHANGED absVars

ConsumerCall == Pop_Call /\ UNCHANGED absVars

Next ==
    \/ \E p \in Producers : ProducerCall(p)
    \/ \E p \in Producers : PushBack_LoadHead(p)
    \/ \E p \in Producers : PushBack_LoadSeq(p)
    \/ \E p \in Producers : PushBack_Cas(p)
    \/ \E p \in Producers : PushBack_WriteData(p)
    \/ \E p \in Producers : PushBack_StoreSeq(p)
    \/ \E p \in Producers : PushBack_Return(p)
    \/ ConsumerCall
    \/ Pop_LoadTail
    \/ Pop_LoadSeq
    \/ Pop_Cas
    \/ Pop_ReadData
    \/ Pop_StoreSeq
    \/ Pop_Return

Spec == Init /\ [][Next]_vars

----------------------------------------------------------------------------
\* Sequential runs: a call starts only when no other call is in progress,
\* and the abstract bounded FIFO of capacity C answers it at once.

\* MpscQueue<T, 1> and MpscQueue<T, 3>: the template takes any std::size_t
\* and the constructor checks nothing.
UnguardedCapacities == {1, 3}

InitUnguarded == InitWith(UnguardedCapacities)

SpecUnguarded == InitUnguarded /\ [][Next]_vars

\* The statements of one PushBack invocation of producer p, and of one Pop
\* invocation, after the call.
PushBackSteps(p) ==
    \/ PushBack_LoadHead(p)
    \/ PushBack_LoadSeq(p)
    \/ PushBack_Cas(p)
    \/ PushBack_WriteData(p)
    \/ PushBack_StoreSeq(p)
    \/ PushBack_Return(p)

PopSteps ==
    \/ Pop_LoadTail
    \/ Pop_LoadSeq
    \/ Pop_Cas
    \/ Pop_ReadData
    \/ Pop_StoreSeq
    \/ Pop_Return

\* A narrow word stands for the 64-bit one, so that a run reaches 2^(w-1)
\* and 2^w: the queue has completed base PushBacks and base Pops, one after
\* the other, and is two positions short of 2^(w-1), or of 2^w.
WrapBits == 4

WrapBases == {2 ^ (WrapBits - 1) - 2, 2 ^ WrapBits - 2}

InitWrap ==
    /\ wordBits = WrapBits
    /\ m_buffer_mask \in Capacities
    /\ \E base \in WrapBases :
          /\ m_data = CellsAfter(m_buffer_mask, base)
          /\ m_head = base
          /\ m_tail = base
          /\ m_pushCount = base
          /\ m_popCount = base
    /\ InitThreads
    /\ NoBenchmark
    /\ NoLegacy

SpecWrap == InitWrap /\ [][Next]_vars

\* Every step one producer thread can take: start a call, or the next
\* statement of the call it is in.
ProducerStep(p) ==
    \/ ProducerCall(p)
    \/ PushBack_LoadHead(p)
    \/ PushBack_LoadSeq(p)
    \/ PushBack_Cas(p)
    \/ PushBack_WriteData(p)
    \/ PushBack_StoreSeq(p)
    \/ PushBack_Return(p)

\* What a reader thread keeps besides its count of the Pops that returned a
\* value (r_ret).
benchVarsButCount == <<h_pc, h_args, h_queue, h_gate, h_stop, w_st, r_st,
                       h_record, h_saved, h_exit, h_file, h_before, h_run>>

\* The reader of the overflow test: while (successfulPopCount < valuesToRead)
\* it calls Pop again, valuesToRead being C.
ReaderCall ==
    /\ r_ret < m_buffer_mask
    /\ ConsumerCall

\* if (ret.has_value()) { successfulPopCount++; }, for the Pop that ends at
\* its diff < 0 branch; the count is the reader's own, and it is taken with
\* the step that returns.
Reader_PopLoadSeq ==
    /\ Pop_LoadSeq_Step
    /\ r_ret' = IF c_pc' = "idle" /\ c_ret'[1] = SUCCESS THEN r_ret + 1 ELSE r_ret
    /\ UNCHANGED benchVarsButCount

\* if (ret.has_value()) { successfulPopCount++; }, for the Pop that returns
\* the payload of a cell
Reader_PopReturn ==
    /\ Pop_Return_Step
    /\ r_ret' = IF c_ret'[1] = SUCCESS THEN r_ret + 1 ELSE r_ret
    /\ UNCHANGED benchVarsButCount

ReaderStep ==
    \/ ReaderCall
    \/ Pop_LoadTail
    \/ Reader_PopLoadSeq
    \/ Pop_Cas
    \/ Pop_ReadData
    \/ Pop_StoreSeq
    \/ Reader_PopReturn

NextOverflow ==
    \/ \E p \in Producers : ProducerStep(p)
    \/ ReaderStep

\* The overflow test: writer threads and one reader thread, each scheduled
\* again and again while it has a step to take.
SpecOverflow ==
    /\ Init
    /\ [][NextOverflow]_vars
    /\ \A p \in Producers : WF_vars(ProducerStep(p))
    /\ WF_vars(ReaderStep)

\* The same threads with no assumption on scheduling: any thread may be
\* suspended for good at any statement.
SpecSuspend == Init /\ [][NextOverflow]_vars

----------------------------------------------------------------------------
\* The benchmark executable: main, RunBenchmark, its writer and reader
\* threads and SaveBenchmarkResults.  A queue of QueueSize::value cells is
\* represented by the queue of the model's capacity.

\* Bounds: PushBack calls of one benchmark run, runs of the executable
\* against the same results path, and the largest count the reader keeps
\* exactly (it stands for every larger count as well: the reader goes on
\* calling Pop until the main thread sets stop).
MaxBenchCalls == 2
MaxRuns == 2
MaxCountedPops == 1

\* The cases of main's switch (queueSize).
ValidQueueSizes == {32, 64, 128, 256, 512, 1024, 1024 * 2, 1024 * 4, 1024 * 8, 1024 * 10}

\* Command lines: --queue-size well formed or not an integer, valid (32,
\* 10240) or not (0, 100); --producer-count 1 or 2.
QueueSizeArgs == {32, 10240, 0, 100}
BenchArgs ==
    {[wellFormed |-> TRUE, queueSize |-> q, producerCount |-> n] :
        q \in QueueSizeArgs, n \in Producers}
    \cup {[wellFormed |-> FALSE, queueSize |-> 0, producerCount |-> 1]}

\* --producer-count 0: the run has a reader and no writer.
NoProducerArgs ==
    {[wellFormed |-> TRUE, queueSize |-> q, producerCount |-> 0] : q \in QueueSizeArgs}

\* The executable is started with one of the command lines args.
StartOfMainWith(args, run, file) ==
    /\ h_pc = "parse"
    /\ h_args \in args
    /\ h_queue = "none"
    /\ h_gate = FALSE
    /\ h_stop = FALSE
    /\ w_st = [p \in Producers |-> "none"]
    /\ r_st = "none"
    /\ r_ret = 0
    /\ h_record = <<>>
    /\ h_saved = FALSE
    /\ h_exit = -1
    /\ h_file = file
    /\ h_before = file
    /\ h_run = run

\* The executable is started with some command line.
StartOfMain(run, file) == StartOfMainWith(BenchArgs, run, file)

InitBench == InitQueue(Capacities) /\ StartOfMain(1, <<>>) /\ NoLegacy

\* The writer threads of this run: producerCount of them.
Writers == {p \in Producers : p <= h_args.producerCount}

\* The exit status of a process killed by SIGSEGV, as the shell reports it:
\* what LOG_ERROR does when Logger::s_logger is still null.
SegfaultStatus == 139

\* program.parse_args: an ill-formed command line is an exception, and the
\* handler logs before it returns 1.  Logger::Init() is first called by the
\* constructor of MpscQueueBenchmark, after the try block, so LOG_ERROR
\* calls error() through the null Logger::s_logger: undefined behaviour,
\* the process is killed or the handler goes on to return 1.
Main_ParseArgs ==
    /\ h_pc = "parse"
    /\ IF h_args.wellFormed
       THEN /\ h_pc' = "switch"
            /\ UNCHANGED h_exit
       ELSE /\ h_pc' = "exited"
            /\ h_exit' \in {1, SegfaultStatus}
    /\ UNCHANGED <<h_args, h_queue, h_gate, h_stop, w_st, r_st, r_ret,
                   h_record, h_saved, h_file, h_before, h_run>>
    /\ UNCHANGED <<libVars, legacyVars>>

\* switch (queueSize): a case calls RunBenchmark, default returns 1
Main_Switch ==
    /\ h_pc = "switch"
    /\ IF h_args.queueSize \in ValidQueueSizes
       THEN /\ h_pc' = "construct"
            /\ UNCHANGED h_exit
       ELSE /\ h_pc' = "exited"
            /\ h_exit' = 1
    /\ UNCHANGED <<h_args, h_queue, h_gate, h_stop, w_st, r_st, r_ret,
                   h_record, h_saved, h_file, h_before, h_run>>
    /\ UNCHANGED <<libVars, legacyVars>>

\* RunBenchmark up to "bool stop = false": QueueType queue is constructed
RunBenchmark_Construct ==
    /\ h_pc = "construct"
    /\ h_pc' = "spawn_writers"
    /\ h_queue' = "alive"
    /\ h_stop' = FALSE
    /\ h_record' = <<h_run, h_args.producerCount, 0>>
    /\ m_data' = InitCells(m_buffer_mask)
    /\ m_head' = 0
    /\ m_tail' = 0
    /\ m_pushCount' = 0
    /\ m_popCount' = 0
    /\ UNCHANGED <<wordBits, m_buffer_mask, prodVars, consVars, histVars, absVars, legacyVars>>
    /\ UNCHANGED <<h_args, h_gate, w_st, r_st, r_ret, h_saved, h_exit, h_file, h_before, h_run>>

\* One round of the loop over producerCount: std::async(writer, ...)
RunBenchmark_SpawnWriter ==
    /\ h_pc = "spawn_writers"
    /\ \E p \in Writers :
          /\ w_st[p] = "none"
          /\ \A q \in Writers : q < p => w_st[q] # "none"
          /\ w_st' = [w_st EXCEPT ![p] = "wait"]
    /\ UNCHANGED <<h_pc, h_args, h_queue, h_gate, h_stop, r_st, r_ret,
                   h_record, h_saved, h_exit, h_file, h_before, h_run>>
    /\ UNCHANGED <<libVars, legacyVars>>

\* The loop is over: readerFut = std::async(reader, ...)
RunBenchmark_SpawnReader ==
    /\ h_pc = "spawn_writers"
    /\ \A p \in Writers : w_st[p] # "none"
    /\ r_st' = "wait"
    /\ h_pc' = "release"
    /\ UNCHANGED <<h_args, h_queue, h_gate, h_stop, w_st, r_ret,
                   h_record, h_saved, h_exit, h_file, h_before, h_run>>
    /\ UNCHANGED <<libVars, legacyVars>>

\* go.set_value()
RunBenchmark_Release ==
    /\ h_pc = "release"
    /\ h_gate' = TRUE
    /\ h_pc' = "sleep"
    /\ UNCHANGED <<h_args, h_queue, h_stop, w_st, r_st, r_ret,
                   h_record, h_saved, h_exit, h_file, h_before, h_run>>
    /\ UNCHANGED <<libVars, legacyVars>>

\* sleep_for(500 ms) is over; stop = true
RunBenchmark_SetStop ==
    /\ h_pc = "sleep"
    /\ h_stop' = TRUE
    /\ h_pc' = "join_reader"
    /\ UNCHANGED <<h_args, h_queue, h_gate, w_st, r_st, r_ret,
                   h_record, h_saved, h_exit, h_file, h_before, h_run>>
    /\ UNCHANGED <<libVars, legacyVars>>

\* auto [popCount, successfulPops] = readerFut.get(); the record is filled in
RunBenchmark_JoinReader ==
    /\ h_pc = "join_reader"
    /\ r_st = "done"
    /\ h_record' = <<h_run, h_args.producerCount, r_ret>>
    /\ h_pc' = "save"
    /\ UNCHANGED <<h_args, h_queue, h_gate, h_stop, w_st, r_st, r_ret,
                   h_saved, h_exit, h_file, h_before, h_run>>
    /\ UNCHANGED <<libVars, legacyVars>>

\* SaveBenchmarkResults(singleBenchmarkResult): the existing file is read
\* into a local that is dropped; the file is opened for writing (which may
\* fail) and overwritten with the new record alone
RunBenchmark_Save ==
    /\ h_pc = "save"
    /\ \E opened \in BOOLEAN :
          IF opened
          THEN /\ h_file' = <<h_record>>
               /\ h_saved' = TRUE
          ELSE /\ UNCHANGED h_file
               /\ h_saved' = FALSE
    /\ h_pc' = "join_writers"
    /\ UNCHANGED <<h_args, h_queue, h_gate, h_stop, w_st, r_st, r_ret,
                   h_record, h_exit, h_before, h_run>>
    /\ UNCHANGED <<libVars, legacyVars>>

\* Mutant of RunBenchmark_JoinWriters: the writer futures do not block.
RunBenchmark_JoinWriters_Detached ==
    /\ h_pc = "join_writers"
    /\ h_pc' = "destroy"
    /\ UNCHANGED <<h_args, h_queue, h_gate, h_stop, w_st, r_st, r_ret,
                   h_record, h_saved, h_exit, h_file, h_before, h_run>>
    /\ UNCHANGED <<libVars, legacyVars>>

\* return: the locals are destroyed in reverse order of declaration;
\* ~writerFutures blocks until every writer thread has finished
RunBenchmark_JoinWriters ==
    /\ h_pc = "join_writers"
    /\ \A p \in Writers : w_st[p] = "done"
    /\ h_pc' = "destroy"
    /\ UNCHANGED <<h_args, h_queue, h_gate, h_stop, w_st, r_st, r_ret,
                   h_record, h_saved, h_exit, h_file, h_before, h_run>>
    /\ UNCHANGED <<libVars, legacyVars>>

\* ~queue, after ~writerFutures (queue is declared before writerFutures)
RunBenchmark_Destroy ==
    /\ h_pc = "destroy"
    /\ h_queue' = "destroyed"
    /\ h_pc' = "return"
    /\ UNCHANGED <<h_args, h_gate, h_stop, w_st, r_st, r_ret,
                   h_record, h_saved, h_exit, h_file, h_before, h_run>>
    /\ UNCHANGED <<libVars, legacyVars>>

\* if (!result) return 1; return 0
Main_Return ==
    /\ h_pc = "return"
    /\ h_exit' = IF h_saved THEN 0 ELSE 1
    /\ h_pc' = "exited"
    /\ UNCHANGED <<h_args, h_queue, h_gate, h_stop, w_st, r_st, r_ret,
                   h_record, h_saved, h_file, h_before, h_run>>
    /\ UNCHANGED <<libVars, legacyVars>>

\* The executable is run again against the same results path: a new process,
\* nothing of the previous one is left but the file.
Main_RunAgain ==
    /\ h_pc = "exited"
    /\ h_run < MaxRuns
    /\ h_pc' = "parse"
    /\ h_args' \in BenchArgs
    /\ h_queue' = "none"
    /\ h_gate' = FALSE
    /\ h_stop' = FALSE
    /\ w_st' = [p \in Producers |-> "none"]
    /\ r_st' = "none"
    /\ r_ret' = 0
    /\ h_record' = <<>>
    /\ h_saved' = FALSE
    /\ h_exit' = -1
    /\ h_before' = h_file
    /\ h_run' = h_run + 1
    /\ UNCHANGED h_file
    /\ m_data' = InitCells(m_buffer_mask)
    /\ m_head' = 0
    /\ m_tail' = 0
    /\ m_pushCount' = 0
    /\ m_popCount' = 0
    /\ p_pc' = [p \in Producers |-> "idle"]
    /\ p_pos' = [p \in Producers |-> 0]
    /\ p_seq' = [p \in Producers |-> 0]
    /\ p_element' = [p \in Producers |-> DefaultT]
    /\ p_ret' = [p \in Producers |-> NONE]
    /\ c_pc' = "idle"
    /\ c_pos' = 0
    /\ c_seq' = 0
    /\ c_data' = DefaultT
    /\ c_ret' = <<NONE, DefaultT>>
    /\ calls' = [p \in Producers |-> 0]
    /\ reserved' = <<>>
    /\ committed' = <<>>
    /\ popped' = <<>>
    /\ rearmed' = <<>>
    /\ UNCHANGED <<wordBits, m_buffer_mask, absVars, legacyVars>>

\* Mutant of writer_Wait: the writer does not wait for the gate.
writer_Wait_NoGate(p) ==
    /\ w_st[p] = "wait"
    /\ w_st' = [w_st EXCEPT ![p] = "loop"]
    /\ UNCHANGED <<h_pc, h_args, h_queue, h_gate, h_stop, r_st, r_ret,
                   h_record, h_saved, h_exit, h_file, h_before, h_run>>
    /\ UNCHANGED <<libVars, legacyVars>>

\* writer: ready.wait() returns once the gate is released
writer_Wait(p) ==
    /\ w_st[p] = "wait"
    /\ h_gate
    /\ w_st' = [w_st EXCEPT ![p] = "loop"]
    /\ UNCHANGED <<h_pc, h_args, h_queue, h_gate, h_stop, r_st, r_ret,
                   h_record, h_saved, h_exit, h_file, h_before, h_run>>
    /\ UNCHANGED <<libVars, legacyVars>>

\* writer: while (!stop) queue.PushBack(...).  The loop condition is
\* evaluated before every call, and the call begins only when it finds stop
\* false.  (stop is a plain bool written by the main thread; the loop body
\* holds sequentially consistent atomic operations, so the flag is read anew
\* in every iteration.)
writer_PushBack(p) ==
    /\ w_st[p] = "loop"
    /\ ~h_stop
    /\ TotalCalls < MaxBenchCalls
    /\ ProducerCall(p)

\* writer: the loop condition sees stop set; the thread ends
writer_Return(p) ==
    /\ w_st[p] = "loop"
    /\ p_pc[p] = "idle"
    /\ h_stop
    /\ w_st' = [w_st EXCEPT ![p] = "done"]
    /\ UNCHANGED <<h_pc, h_args, h_queue, h_gate, h_stop, r_st, r_ret,
                   h_record, h_saved, h_exit, h_file, h_before, h_run>>
    /\ UNCHANGED <<libVars, legacyVars>>

\* reader: ready.wait() returns once the gate is released
reader_Wait ==
    /\ r_st = "wait"
    /\ h_gate
    /\ r_st' = "loop"
    /\ UNCHANGED <<h_pc, h_args, h_queue, h_gate, h_stop, w_st, r_ret,
                   h_record, h_saved, h_exit, h_file, h_before, h_run>>
    /\ UNCHANGED <<libVars, legacyVars>>

\* A reader whose loop condition does not test stop.
reader_Pop_IgnoresStop ==
    /\ r_st = "loop"
    /\ ConsumerCall

\* reader: while (!stop) queue.Pop().  The loop condition is evaluated before
\* every call, and the call begins only when it finds stop false.
reader_Pop ==
    /\ r_st = "loop"
    /\ ~h_stop
    /\ ConsumerCall

\* successfullPops++ of the reader, kept up to MaxCountedPops
CountPop(n) == IF n < MaxCountedPops THEN n + 1 ELSE n

\* reader: counter++; if (ret.has_value()) { successfullPops++; } for the Pop
\* that ends at its diff < 0 branch (the count is the reader's own, and it
\* is taken with the step that returns)
reader_PopLoadSeq ==
    /\ Pop_LoadSeq_Step
    /\ r_ret' = IF c_pc' = "idle" /\ c_ret'[1] = SUCCESS THEN CountPop(r_ret) ELSE r_ret
    /\ UNCHANGED benchVarsButCount

\* reader: counter++; if (ret.has_value()) { successfullPops++; } for the Pop
\* that returns the payload of a cell
reader_PopReturn ==
    /\ Pop_Return_Step
    /\ r_ret' = IF c_ret'[1] = SUCCESS THEN CountPop(r_ret) ELSE r_ret
    /\ UNCHANGED benchVarsButCount

\* The steps of the Pop the reader is in.
reader_PopSteps ==
    \/ Pop_LoadTail
    \/ reader_PopLoadSeq
    \/ Pop_Cas
    \/ Pop_ReadData
    \/ Pop_StoreSeq
    \/ reader_PopReturn

\* reader: the loop condition sees stop set; return {counter, successfullPops}
\* (every Pop holds a value, so the two counts are the same number)
reader_Return ==
    /\ r_st = "loop"
    /\ c_pc = "idle"
    /\ h_stop
    /\ r_st' = "done"
    /\ UNCHANGED <<h_pc, h_args, h_queue, h_gate, h_stop, w_st, r_ret,
                   h_record, h_saved, h_exit, h_file, h_before, h_run>>
    /\ UNCHANGED <<libVars, legacyVars>>

NextBench ==
    \/ Main_ParseArgs
    \/ Main_Switch
    \/ RunBenchmark_Construct
    \/ RunBenchmark_SpawnWriter
    \/ RunBenchmark_SpawnReader
    \/ RunBenchmark_Release
    \/ RunBenchmark_SetStop
    \/ RunBenchmark_JoinReader
    \/ RunBenchmark_Save
    \/ RunBenchmark_JoinWriters
    \/ RunBenchmark_Destroy
    \/ Main_Return
    \/ Main_RunAgain
    \/ \E p \in Producers : writer_Wait(p)
    \/ \E p \in Producers : writer_PushBack(p)
    \/ \E p \in Producers : writer_Return(p)
    \/ reader_Wait
    \/ reader_Pop
    \/ reader_Return
    \/ \E p \in Producers : PushBackSteps(p)
    \/ reader_PopSteps

SpecBench == InitBench /\ [][NextBench]_vars

SeqProducerCall(p) ==
    /\ Quiescent
    /\ PushBack_Call(p)
    /\ IF Len(fifo) < m_buffer_mask
       THEN /\ fifo' = Append(fifo, <<p, calls[p] + 1>>)
            /\ expect' = <<p, SUCCESS, DefaultT>>
       ELSE /\ fifo' = fifo
            /\ expect' = <<p, QUEUE_IS_FULL, DefaultT>>

SeqConsumerCall ==
    /\ Quiescent
    /\ Pop_Call
    /\ IF fifo # <<>>
       THEN /\ fifo' = Tail(fifo)
            /\ expect' = <<0, SUCCESS, Head(fifo)>>
       ELSE /\ fifo' = fifo
            /\ expect' = <<0, QUEUE_IS_EMPTY, DefaultT>>

NextSeq ==
    \/ \E p \in Producers : SeqProducerCall(p)
    \/ \E p \in Producers : PushBack_LoadHead(p)
    \/ \E p \in Producers : PushBack_LoadSeq(p)
    \/ \E p \in Producers : PushBack_Cas(p)
    \/ \E p \in Producers : PushBack_WriteData(p)
    \/ \E p \in Producers : PushBack_StoreSeq(p)
    \/ \E p \in Producers : PushBack_Return(p)
    \/ SeqConsumerCall
    \/ Pop_LoadTail
    \/ Pop_LoadSeq
    \/ Pop_Cas
    \/ Pop_ReadData
    \/ Pop_StoreSeq
    \/ Pop_Return

SpecSeq == Init /\ [][NextSeq]_vars

----------------------------------------------------------------------------
\* The legacy queue of src/unnamed/part_007, used by one thread: every call
\* runs to its end before the next one starts.

\* Bound: PushBack calls on the legacy queue
MaxLegacyCalls == 7

\* MpscQueue<int, C> for small C (the tests use 10).
LegacyCapacities == {1, 2, 3}

CRASH == "CRASH"

\* m_data{ }, m_head{ 0 }, m_tail{ 0 }, m_size{ 0 }
InitLegacy ==
    /\ InitQueue(Capacities)
    /\ NoBenchmark
    /\ l_capacity \in LegacyCapacities
    /\ l_data = [i \in 0..(l_capacity - 1) |-> 0]
    /\ l_head = 0
    /\ l_tail = 0
    /\ l_size = 0
    /\ l_ret = [op |-> "none", state |-> NONE, value |-> <<>>, expect |-> <<NONE>>]
    /\ l_count = 0
    /\ l_streak = 0
    /\ l_fifo = <<>>

\* Size()
Size == l_size

\* The process is alive: no call has crashed it.
LegacyAlive == l_ret.state # CRASH

\* m_data[from], ..., m_data[from + n - 1] as memcpy reads them.
Slice(from, n) == [i \in 1..n |-> l_data[from + i - 1]]

\* What the abstract FIFO holds after a push of e: when it holds C elements
\* the oldest one is dropped.
FifoPush(e) ==
    IF Len(l_fifo) = l_capacity
    THEN Append(Tail(l_fifo), e)
    ELSE Append(l_fifo, e)

\* Mutant of Legacy_PushBack: the tail is left alone when the queue is full.
Legacy_PushBack_NoDrop ==
    /\ LegacyAlive
    /\ l_count < MaxLegacyCalls
    /\ LET element == l_count + 1
           newHead == (l_head + 1) % l_capacity
       IN /\ l_data' = [l_data EXCEPT ![l_head] = element]
          /\ l_tail' = l_tail
          /\ l_head' = newHead
          /\ l_size' = IF l_size = l_capacity THEN l_size ELSE l_size + 1
          /\ l_fifo' = FifoPush(element)
    /\ l_count' = l_count + 1
    /\ l_streak' = l_streak + 1
    /\ l_ret' = [op |-> "push", state |-> SUCCESS, value |-> <<>>, expect |-> <<SUCCESS>>]
    /\ UNCHANGED <<l_capacity, libVars, benchVars>>

\* void PushBack(const T &element), with the elements 1, 2, 3, ...
Legacy_PushBack ==
    /\ LegacyAlive
    /\ l_count < MaxLegacyCalls
    /\ LET element == l_count + 1
           newHead == (l_head + 1) % l_capacity
       IN /\ l_data' = [l_data EXCEPT ![l_head] = element]
          /\ l_tail' = IF l_size # 0 /\ l_tail = l_head
                       THEN (l_tail + 1) % l_capacity
                       ELSE l_tail
          /\ l_head' = newHead
          /\ l_size' = IF l_size = l_capacity THEN l_size ELSE l_size + 1
          /\ l_fifo' = FifoPush(element)
    /\ l_count' = l_count + 1
    /\ l_streak' = l_streak + 1
    /\ l_ret' = [op |-> "push", state |-> SUCCESS, value |-> <<>>, expect |-> <<SUCCESS>>]
    /\ UNCHANGED <<l_capacity, libVars, benchVars>>

\* std::expected<T, QueueError> Pop()
Legacy_Pop ==
    /\ LegacyAlive
    /\ IF l_size > 0
       THEN /\ l_tail' = (l_tail + 1) % l_capacity
            /\ l_size' = l_size - 1
            /\ l_ret' = [op |-> "pop", state |-> SUCCESS, value |-> <<l_data[l_tail]>>,
                         expect |-> IF l_fifo # <<>> THEN <<SUCCESS>> \o <<Head(l_fifo)>>
                                    ELSE <<QUEUE_IS_EMPTY>>]
       ELSE /\ l_ret' = [op |-> "pop", state |-> QUEUE_IS_EMPTY, value |-> <<>>,
                         expect |-> IF l_fifo # <<>> THEN <<SUCCESS>> \o <<Head(l_fifo)>>
                                    ELSE <<QUEUE_IS_EMPTY>>]
            /\ UNCHANGED <<l_tail, l_size>>
    /\ l_fifo' = IF l_fifo # <<>> THEN Tail(l_fifo) ELSE l_fifo
    /\ l_streak' = 0
    /\ UNCHANGED <<l_capacity, l_data, l_head, l_count, libVars, benchVars>>

\* What the memcpy calls of Flush copy into ret, in order.
FlushCopied ==
    IF (l_head = l_tail /\ l_head # 0) \/ l_head < l_tail
    THEN Slice(l_tail, l_capacity - l_tail) \o Slice(0, l_head)
    ELSE IF l_head = l_tail /\ l_head = 0
    THEN Slice(0, l_size)
    ELSE Slice(l_tail, l_head - l_tail)

\* std::vector<T> Flush(): ret holds m_size elements.  A memcpy of more
\* than m_size elements writes past the end of ret (undefined behaviour):
\* the process crashes, or the write goes unnoticed and ret is returned.
Legacy_Flush ==
    /\ LegacyAlive
    /\ LET copied == FlushCopied
           ret == [i \in 1..l_size |-> IF i <= Len(copied) THEN copied[i] ELSE 0]
       IN \E state \in (IF Len(copied) > l_size THEN {CRASH, SUCCESS} ELSE {SUCCESS}) :
             /\ l_ret' = [op |-> "flush", state |-> state,
                          value |-> IF state = SUCCESS THEN ret ELSE <<>>,
                          expect |-> <<SUCCESS>> \o l_fifo]
             /\ IF state = SUCCESS
                THEN /\ l_head' = 0
                     /\ l_tail' = 0
                     /\ l_size' = 0
                ELSE UNCHANGED <<l_head, l_tail, l_size>>
    /\ l_fifo' = <<>>
    /\ l_streak' = 0
    /\ UNCHANGED <<l_capacity, l_data, l_count, libVars, benchVars>>

NextLegacy ==
    \/ Legacy_PushBack
    \/ Legacy_Pop
    \/ Legacy_Flush

SpecLegacy == InitLegacy /\ [][NextLegacy]_vars

----------------------------------------------------------------------------
\* Vocabulary of the properties

C == m_buffer_mask

\* The element is the one of some successful head compare-exchange.
WasReserved(v) == \E i \in DOMAIN reserved : reserved[i][2] = v

\* The place of element v in the order of the successful head compare-exchanges.
ReservedAt(v) == CHOOSE i \in DOMAIN reserved : reserved[i][2] = v

\* The consumer has left Pop's loop for position pos and not yet read the payload.
ConsumerAboutToRead(pos) == c_pc = "read" /\ c_pos = pos

\* The consumer has read the payload of position pos and not yet returned it.
ConsumerHolds(pos) == c_pc \in {"store", "count"} /\ c_pos = pos

\* Producer p is between its successful head compare-exchange and its publishing store.
ProducerInCell(p) == p_pc[p] \in {"write", "store"}

\* The consumer is between its successful tail compare-exchange and its re-arm store.
ConsumerInCell == c_pc \in {"read", "store"}

----------------------------------------------------------------------------
\* C1 (as stated): Pop delivers values in the order of their commit: if the
\* publishing store of Push(a) comes before that of Push(b), the consumer is
\* returned a before b.
C1_FifoByCommitOrder ==
    \A i, j \in DOMAIN committed : \A k, l \in DOMAIN popped :
        (i < j /\ popped[k][2] = committed[i][2] /\ popped[l][2] = committed[j][2])
            => k < l

\* C1 (amended): Pop delivers values in the order of their reservation: every
\* returned value is the element of a successful head compare-exchange, and if
\* the compare-exchange of Push(a) comes before that of Push(b), the consumer is
\* returned a before b (b is never returned unless a was returned earlier).
C1_FifoByReservationOrder ==
    /\ \A k \in DOMAIN popped : WasReserved(popped[k][2])
    /\ \A k, l \in DOMAIN popped :
           k < l => ReservedAt(popped[k][2]) < ReservedAt(popped[l][2])
    /\ \A l \in DOMAIN popped : \A i \in 1..(ReservedAt(popped[l][2]) - 1) :
           \E k \in 1..(l - 1) : popped[k][2] = reserved[i][2]

\* C1 witness: two elements committed against the order of their reservation
\* have both been returned by Pop.
C1_Witness ==
    \E i, j \in DOMAIN committed :
        /\ i < j
        /\ committed[i][1] > committed[j][1]
        /\ \E k, l \in DOMAIN popped :
               popped[k][2] = committed[i][2] /\ popped[l][2] = committed[j][2]

\* C2: every value Pop returns (or holds, once read) for logical position p is
\* the element of the PushBack that reserved p, whose publishing store is done;
\* never the default payload, a torn one or the one of another lap.
C2_NoPhantomElements ==
    /\ \A k \in DOMAIN popped :
           /\ popped[k][2] \notin {DefaultT, Torn}
           /\ popped[k] \in Range(committed)
           /\ \A i \in DOMAIN reserved :
                  reserved[i][1] = popped[k][1] => reserved[i][2] = popped[k][2]
    /\ ConsumerHolds(c_pos) =>
           /\ c_data \notin {DefaultT, Torn}
           /\ <<c_pos, c_data>> \in Range(committed)
           /\ \A i \in DOMAIN reserved : reserved[i][1] = c_pos => reserved[i][2] = c_data
    /\ c_ret[1] = SUCCESS => <<c_pos, c_ret[2]>> \in Range(committed)

\* C3: no committed element is dropped or duplicated: no element is returned
\* twice, a committed element stays in its cell, unmodified and published,
\* until Pop reads it, and once read it is held or has been returned by Pop.
C3_NoDropNoDuplicate ==
    /\ \A k, l \in DOMAIN popped : popped[k][2] = popped[l][2] => k = l
    /\ \A i, j \in DOMAIN committed : committed[i][2] = committed[j][2] => i = j
    /\ \A i \in DOMAIN committed :
           LET pos == committed[i][1]
               v == committed[i][2]
           IN IF pos >= m_tail \/ ConsumerAboutToRead(pos)
              THEN m_data[CellIndex(pos)] = [data |-> v, sequence |-> pos + 1]
              ELSE IF ConsumerHolds(pos)
              THEN c_data = v
              ELSE <<pos, v>> \in Range(popped)

\* C3 witness: a PushBack returned QUEUE_IS_FULL on a full queue whose C
\* committed elements, of the second lap, are all still unread.
C3_Witness ==
    /\ \E p \in Producers : p_ret[p] = QUEUE_IS_FULL /\ p_pc[p] = "idle"
    /\ m_tail >= 1
    /\ Cardinality({i \in DOMAIN committed : committed[i][1] >= m_tail}) = C
    /\ popped # <<>>

\* C4: a producer that is about to write, or has written, the payload of
\* position p >= C does so after the Pop of position p - C read the payload of
\* that cell and re-armed its sequence.
C4_NeverOverwritesUnread ==
    \A p \in Producers :
        (ProducerInCell(p) /\ p_pos[p] >= C) =>
            /\ (p_pos[p] - C) \in Range(rearmed)
            /\ ~ConsumerAboutToRead(p_pos[p] - C)
            /\ m_tail > p_pos[p] - C

\* C4 witness: a producer has written the payload of a position of a later lap.
C4_Witness ==
    \E p \in Producers :
        p_pc[p] = "store" /\ p_pos[p] >= C /\ m_data[CellIndex(p_pos[p])].data = p_element[p]

\* C5: capacity bound: 0 <= head - tail <= C, at most C committed elements are
\* unread, and the number of reservations never exceeds C plus the number of
\* cells Pop has re-armed.
C5_CapacityBound ==
    /\ 0 <= m_head - m_tail
    /\ m_head - m_tail <= C
    /\ Cardinality({i \in DOMAIN committed : committed[i][1] >= m_tail}) <= C
    /\ Len(reserved) <= C + Len(rearmed)
    /\ Len(reserved) = m_head

\* C5 witness: the queue is full (head - tail = C) on a later lap.
C5_Witness ==
    /\ m_head - m_tail = C
    /\ m_tail >= 1
    /\ Cardinality({i \in DOMAIN committed : committed[i][1] >= m_tail}) = C

\* C6: exclusive payload access: no two producers are between head
\* compare-exchange and publishing store on the same cell, and no producer is
\* there while the consumer is between tail compare-exchange and re-arm store
\* on that cell.
C6_ExclusivePayloadAccess ==
    /\ \A p, q \in Producers :
           (p # q /\ ProducerInCell(p) /\ ProducerInCell(q))
               => CellIndex(p_pos[p]) # CellIndex(p_pos[q])
    /\ \A p \in Producers :
           (ProducerInCell(p) /\ ConsumerInCell)
               => CellIndex(p_pos[p]) # CellIndex(c_pos)

\* C6 witness: a producer is about to write the payload of a later lap while
\* the consumer is about to read the payload of the other cell.
C6_Witness ==
    \E p \in Producers : p_pc[p] = "write" /\ p_pos[p] >= C /\ c_pc = "read"

\* C7: intra-producer order: two elements reserved by the same producer have
\* logical positions in the order of the producer's calls, and Pop returns the
\* later one only after it has returned the earlier one.
C7_IntraProducerOrder ==
    /\ \A i, j \in DOMAIN reserved :
           (reserved[i][2][1] = reserved[j][2][1] /\ reserved[i][2][2] < reserved[j][2][2])
               => reserved[i][1] < reserved[j][1]
    /\ \A l \in DOMAIN popped : \A i \in DOMAIN reserved :
           (reserved[i][2][1] = popped[l][2][1] /\ reserved[i][2][2] < popped[l][2][2])
               => \E k \in 1..(l - 1) : popped[k][2] = reserved[i][2]

\* C7 witness: Pop returned two elements of one producer with an element of
\* the other producer between them.
C7_Witness ==
    \E k, l, m \in DOMAIN popped :
        /\ k < l /\ l < m
        /\ popped[k][2][1] = popped[m][2][1]
        /\ popped[l][2][1] # popped[k][2][1]
        /\ popped[k][2][2] < popped[m][2][2]

\* C8, the state part: a PushBack that returned QUEUE_IS_FULL had loaded a
\* sequence smaller than its pos and reserved nothing; one that returned
\* SUCCESS had loaded a sequence equal to its pos and committed its element.
C8_ReturnState ==
    \A p \in Producers :
        /\ (p_pc[p] = "idle" /\ p_ret[p] = QUEUE_IS_FULL) =>
               /\ p_seq[p] < p_pos[p]
               /\ ~WasReserved(p_element[p])
        /\ (p_pc[p] = "idle" /\ p_ret[p] = SUCCESS) =>
               /\ p_seq[p] = p_pos[p]
               /\ <<p_pos[p], p_element[p]>> \in Range(committed)
        /\ p_pc[p] = "cas" => p_seq[p] = p_pos[p]

\* C8, the step part: on loading the sequence of its candidate cell PushBack
\* returns QUEUE_IS_FULL iff the sequence is smaller than pos, which is the case
\* iff the Pop of position pos - C has not re-armed the cell; on an equal
\* sequence it goes on to the compare-exchange, on a larger one it reloads head.
C8_LoadSeqStep ==
    \A p \in Producers :
        (p_pc[p] = "load_seq" /\ p_pc'[p] # "load_seq") =>
            LET pos == p_pos[p]
                seq == m_data[CellIndex(pos)].sequence
            IN /\ p_seq'[p] = seq
               /\ (p_pc'[p] = "idle" /\ p_ret'[p] = QUEUE_IS_FULL) <=> seq < pos
               /\ seq < pos <=> (pos >= C /\ (pos - C) \notin Range(rearmed))
               /\ seq = pos => (p_pc'[p] = "cas" /\ p_ret'[p] = NONE)
               /\ seq > pos => (p_pc'[p] = "load_head" /\ p_ret'[p] = NONE)

\* C8: PushBack returns QUEUE_IS_FULL iff the sequence it loaded from its
\* candidate cell is smaller than pos (the cell is not yet re-armed for this
\* lap); in every other case it retries or commits and returns SUCCESS.
C8_FullIffCellBehind == []C8_ReturnState /\ [][C8_LoadSeqStep]_vars

\* C8 witness: a PushBack returned QUEUE_IS_FULL for a candidate position of
\* the third lap whose cell holds a published, unread element.
C8_Witness ==
    \E p \in Producers :
        /\ p_pc[p] = "idle" /\ p_ret[p] = QUEUE_IS_FULL
        /\ p_pos[p] >= 2 * C
        /\ p_seq[p] = p_pos[p] - C + 1

\* C9, the state part: the consumer's pos is the current tail until its
\* compare-exchange, which therefore succeeds, and a returned value is the
\* committed element of that position.
C9_ReturnState ==
    /\ c_pc \in {"load_seq", "cas"} => c_pos = m_tail
    /\ c_pc = "cas" => c_seq = c_pos + 1
    /\ c_pc \in {"read", "store", "count"} => m_tail = c_pos + 1
    /\ (c_pc = "idle" /\ c_ret[1] = SUCCESS) =>
           /\ m_tail = c_pos + 1
           /\ <<c_pos, c_ret[2]>> \in Range(committed)
           /\ popped # <<>> /\ popped[Len(popped)] = <<c_pos, c_ret[2]>>

\* C9, the step part: on loading the sequence of cell tail mod C Pop returns
\* QUEUE_IS_EMPTY iff the sequence is smaller than tail + 1, which is the case
\* iff the element of position tail is not published; otherwise it goes on to
\* take that element.
C9_LoadSeqStep ==
    (c_pc = "load_seq" /\ c_pc' # "load_seq") =>
        LET seq == m_data[CellIndex(m_tail)].sequence
        IN /\ c_seq' = seq
           /\ (c_pc' = "idle" /\ c_ret' = <<QUEUE_IS_EMPTY, DefaultT>>) <=> seq < m_tail + 1
           /\ seq < m_tail + 1 <=> ~(\E i \in DOMAIN committed : committed[i][1] = m_tail)
           /\ seq >= m_tail + 1 => (c_pc' = "cas" /\ c_ret' = <<NONE, DefaultT>>)

\* C9: Pop returns QUEUE_IS_EMPTY iff the sequence loaded from cell tail mod C
\* is smaller than tail + 1 (no element at tail is published); whenever the
\* element at tail is published, Pop returns that element.
C9_EmptyIffNotPublished == []C9_ReturnState /\ [][C9_LoadSeqStep]_vars

\* C10: when calls do not overlap the queue is an abstract bounded FIFO of
\* capacity C: every call returns what the FIFO answers (SUCCESS iff fewer than
\* C elements are stored, else QUEUE_IS_FULL; the oldest element iff one is
\* stored, else QUEUE_IS_EMPTY), and between calls the cells from tail to head
\* hold exactly the FIFO's elements, published, in order.
C10_SequentialBoundedFifo ==
    Quiescent =>
        /\ expect[1] = 0 => c_ret = <<expect[2], expect[3]>>
        /\ expect[1] \in Producers => p_ret[expect[1]] = expect[2]
        /\ Len(fifo) = m_head - m_tail
        /\ Len(fifo) <= C
        /\ \A i \in 1..Len(fifo) :
               m_data[CellIndex(m_tail + i - 1)] = [data |-> fifo[i], sequence |-> m_tail + i]

\* The values handed to PushBack so far, and the values Pop has returned.
AllPushed == {v \in Producers \X (1..MaxPushCalls) : v[2] <= calls[v[1]]}
PoppedValues == {popped[i][2] : i \in 1..Len(popped)}

\* C11: while the producers together have made at most C PushBack calls on a
\* fresh queue, no PushBack has returned QUEUE_IS_FULL (every returned call
\* returned SUCCESS), whatever the consumer does meanwhile; and once the
\* reader has obtained as many values as there were calls (its count of the
\* Pops that held a value has reached that number), the values it obtained
\* are the payloads Pop took out of cells, and they are exactly the pushed
\* values, each once.
C11_FillWithinCapacity ==
    TotalCalls <= C =>
        /\ \A p \in Producers :
              /\ p_ret[p] # QUEUE_IS_FULL
              /\ (p_pc[p] = "idle" /\ calls[p] > 0) => p_ret[p] = SUCCESS
        /\ Len(popped) <= TotalCalls
        /\ (c_pc = "idle" /\ r_ret = TotalCalls) =>
              /\ Len(popped) = r_ret
              /\ PoppedValues = AllPushed
              /\ Cardinality(PoppedValues) = Len(popped)

\* C12: in the overflow test (the producers together attempt MaxPushCalls >= C
\* PushBacks and ignore QUEUE_IS_FULL, the reader calls Pop until it has C
\* values) the reader, under fair scheduling, ends up having obtained exactly
\* C values for good, each of them a pushed value that Pop took out of a
\* cell, and at least C PushBacks have succeeded.
C12_OverflowTolerated ==
    <>[](/\ r_ret = C
         /\ Len(popped) = C
         /\ c_pc = "idle"
         /\ PoppedValues \subseteq AllPushed
         /\ Cardinality({p \in Producers : p_pc[p] = "idle"}) = Cardinality(Producers)
         /\ Len(committed) >= C)

\* The sequence numbers of the cells.
Sequences(cells) == [i \in DOMAIN cells |-> cells[i].sequence]

\* What the caller of Pop gets for an answer of the abstract FIFO, on a fresh
\* queue as on any other: the element as a value, and the answer
\* QUEUE_IS_EMPTY as the value T(QUEUE_IS_EMPTY).
PopResultOf(state, value) ==
    IF state = QUEUE_IS_EMPTY THEN <<SUCCESS, EmptyAsValue>> ELSE <<state, value>>

\* C13: with non-overlapping calls, after C successful PushBacks followed by
\* C successful Pops the queue is a fresh queue with every index shifted by
\* C: head = tail = C and cell i has sequence i + C; whenever the queue is
\* empty between calls its sequence numbers are those of a fresh queue
\* shifted by tail; and every call, made on the fresh queue or from the
\* shifted state on, returns the same function of the abstract FIFO, which
\* is empty in the shifted state as it is for a fresh queue.
C13_RearmIdempotence ==
    Quiescent =>
        /\ (Len(reserved) = C /\ Len(popped) = C) =>
              /\ m_head = C
              /\ m_tail = C
              /\ fifo = <<>>
              /\ \A i \in 0..(C - 1) :
                    m_data[i].sequence = InitCells(C)[i].sequence + C
        /\ m_head = m_tail =>
              Sequences(m_data) = Sequences(CellsAfter(C, m_tail))
        /\ expect[1] = 0 => c_ret = PopResultOf(expect[2], expect[3])
        /\ expect[1] \in Producers => p_ret[expect[1]] = expect[2]

\* The queue was filled and drained once, and after that a PushBack, a Pop
\* returning its value and a Pop on the empty queue have been made.
C13_Witness ==
    /\ Quiescent
    /\ m_head = C + 1
    /\ m_tail = C + 1
    /\ Len(popped) = C + 1
    /\ popped[C + 1][1] = C
    /\ c_ret = <<SUCCESS, EmptyAsValue>>
    /\ expect = <<0, QUEUE_IS_EMPTY, DefaultT>>

\* A capacity the construction guard is said to accept: a power of two >= 2.
IsPowerOfTwo(n) == \E k \in 1..30 : n = 2 ^ k

\* C14: a queue whose capacity is not a power of two >= 2 is rejected at
\* construction, so no PushBack and no Pop is ever started on it (and none
\* has returned).
C14_ConstructionGuard ==
    ~IsPowerOfTwo(m_buffer_mask) =>
        /\ TotalCalls = 0
        /\ Quiescent
        /\ c_ret = <<NONE, DefaultT>>
        /\ \A p \in Producers : p_ret[p] = NONE

\* A PushBack goes round its loop: from the branch on diff back to the load
\* of head, or from a failed compare-exchange back to the load of the cell.
C15_LoopsAgain(p) ==
    \/ p_pc[p] = "load_seq" /\ p_pc'[p] = "load_head"
    \/ p_pc[p] = "cas" /\ p_pc'[p] = "load_seq"

C15_LoopOnlyWhenHeadMoved ==
    \A p \in Producers : C15_LoopsAgain(p) => m_head # p_pos[p]

\* C15: no operation blocks.  A PushBack repeats its loop only when head is
\* no longer the pos it used; and an invocation that is scheduled returns,
\* whatever the other threads do, also when they are never scheduled again
\* in the middle of their own PushBack or Pop (only the thread in question
\* is assumed to be scheduled; head advances at most MaxPushCalls times).
C15_NonBlocking ==
    /\ [][C15_LoopOnlyWhenHeadMoved]_vars
    /\ \A p \in Producers :
          WF_vars(PushBackSteps(p)) => (p_pc[p] # "idle" ~> p_pc[p] = "idle")
    /\ WF_vars(PopSteps) => (c_pc # "idle" ~> c_pc = "idle")

\* Producer 1 has returned QUEUE_IS_FULL while producer 2 sits between its
\* compare-exchange and its publishing store and the consumer between its
\* compare-exchange and its re-arming store.
C15_Witness ==
    /\ p_pc[1] = "idle"
    /\ p_ret[1] = QUEUE_IS_FULL
    /\ p_pc[2] = "write"
    /\ c_pc = "read"

\* One step of the consumer: the load of a cell sequence is reached only from
\* the first load of tail, which is reached only from the call; the branch
\* on diff goes on to the compare-exchange or returns QUEUE_IS_EMPTY; the
\* compare-exchange goes on to the read of the payload.
C16_PopStep ==
    /\ (c_pc' = "load_tail" /\ c_pc # "load_tail") => c_pc = "idle"
    /\ (c_pc' = "load_seq" /\ c_pc # "load_seq") => c_pc = "load_tail"
    /\ (c_pc = "load_seq" /\ c_pc' # "load_seq") => c_pc' \in {"cas", "idle"}
    /\ (c_pc = "cas" /\ c_pc' # "cas") => (c_pc' = "read" /\ m_tail' = Wrap(c_pos + 1))

\* C16: with the single consumer Pop is wait-free, whatever the producers
\* do: whenever Pop is at its compare-exchange tail still equals its pos (the
\* compare-exchange succeeds), whenever it is at the branch its diff is not
\* positive, and every invocation runs straight from the call through one
\* load of a cell sequence to its return, never back.
C16_PopWaitFree ==
    /\ [](c_pc = "cas" => m_tail = c_pos)
    /\ [](c_pc = "load_seq" =>
            \A diff \in PopDiff(m_data[CellIndex(c_pos)].sequence, c_pos) : diff <= 0)
    /\ [][C16_PopStep]_vars

\* Pop has passed its compare-exchange for position 1 while both producers
\* are in the middle of PushBack, one of them about to try its own
\* compare-exchange on head.
C16_Witness ==
    /\ c_pc = "read"
    /\ c_pos = 1
    /\ m_tail = 2
    /\ p_pc[1] = "cas"
    /\ p_pc[2] = "write"

\* One step seen by the counters: neither decreases; a step on which a
\* PushBack returns SUCCESS, or a Pop a value, adds one to its counter; a
\* step on which a call returns QUEUE_IS_FULL or QUEUE_IS_EMPTY changes
\* neither.
C17_CounterStep ==
    /\ m_pushCount' >= m_pushCount
    /\ m_popCount' >= m_popCount
    /\ \A p \in Producers :
          /\ (p_ret[p] = NONE /\ p_ret'[p] = SUCCESS) =>
                (m_pushCount' = m_pushCount + 1 /\ m_popCount' = m_popCount)
          /\ (p_ret[p] = NONE /\ p_ret'[p] = QUEUE_IS_FULL) =>
                (m_pushCount' = m_pushCount /\ m_popCount' = m_popCount)
    /\ (c_ret[1] = NONE /\ c_ret'[1] = SUCCESS) =>
          (m_popCount' = m_popCount + 1 /\ m_pushCount' = m_pushCount)
    /\ (c_ret[1] = NONE /\ c_ret'[1] = QUEUE_IS_EMPTY) =>
          (m_popCount' = m_popCount /\ m_pushCount' = m_pushCount)

\* C17: push_count and pop_count never decrease; calls returning
\* QUEUE_IS_FULL or QUEUE_IS_EMPTY leave them alone; and with no PushBack or
\* Pop in progress push_count is the number of PushBacks that returned
\* SUCCESS (each reserved and published one position) and pop_count the
\* number of Pops that returned a value.
C17_CounterMonotonicity ==
    /\ [][C17_CounterStep]_vars
    /\ [](Quiescent =>
            /\ m_pushCount = Len(committed)
            /\ m_pushCount = Len(reserved)
            /\ m_popCount = Len(popped)
            /\ m_popCount = Len(rearmed))

\* C18: at every point of a run the number of successful Pops the consumer
\* has completed (the Pops whose result held a value, as the reader counts
\* them) is at most push_count.
C18_PopsWithinPushCount == r_ret <= m_pushCount

\* m_popCount.load(), the value GetPopCount() returns.
GetPopCount == m_popCount

\* C19: whenever the consumer is between Pop calls GetPopCount() is exactly
\* the number of values Pop has returned to it (the reader's count of the
\* Pops whose result held a value), whatever the producers are in the
\* middle of.
C19_PopCountExact == c_pc = "idle" => GetPopCount = r_ret

\* The signed two's-complement difference of two w-bit words a and b: the
\* word a - b (mod 2^w) read as a signed number.
TwosComplementDiff(a, b) == ToSigned((a - b + WordMod) % WordMod)

\* C20: with w-bit words that wrap, the diff PushBack and Pop compute is the
\* signed two's-complement difference of seq and pos (of seq and pos + 1 in
\* Pop), also across 2^(w-1) and 2^w; the number of reserved, unconsumed
\* positions head - tail (mod 2^w) stays within 0..C; and Pop returns the
\* values in the order of their reservation.
C20_WrapAroundSafe ==
    /\ \A p \in Producers :
          p_pc[p] = "load_seq" =>
              PushDiff(m_data[CellIndex(p_pos[p])].sequence, p_pos[p])
                  = {TwosComplementDiff(m_data[CellIndex(p_pos[p])].sequence, p_pos[p])}
    /\ c_pc = "load_seq" =>
          PopDiff(m_data[CellIndex(c_pos)].sequence, c_pos)
              = {TwosComplementDiff(m_data[CellIndex(c_pos)].sequence, Wrap(c_pos + 1))}
    /\ (m_head - m_tail + WordMod) % WordMod <= C
    /\ Len(popped) <= Len(reserved)
    /\ \A k \in DOMAIN popped : popped[k][2] = reserved[k][2]

\* C21: while no PushBack has been called the queue is as the constructor
\* left it (head = tail = 0, both counters 0, cell i has sequence i) and
\* every Pop made so far returned QUEUE_IS_EMPTY; and a PushBack whose pos
\* is below C never finds its cell behind (diff < 0), and finds it ready
\* (diff = 0) whenever pos is still the head.
C21_InitialState ==
    /\ TotalCalls = 0 =>
          /\ m_head = 0
          /\ m_tail = 0
          /\ m_pushCount = 0
          /\ m_popCount = 0
          /\ \A i \in 0..(C - 1) : m_data[i].sequence = i
          /\ c_ret[1] \in {NONE, QUEUE_IS_EMPTY}
          /\ c_pc \in {"idle", "load_tail", "load_seq"}
    /\ \A p \in Producers :
          (p_pc[p] = "load_seq" /\ p_pos[p] < C) =>
              \A diff \in PushDiff(m_data[CellIndex(p_pos[p])].sequence, p_pos[p]) :
                  /\ diff >= 0
                  /\ m_head = p_pos[p] => diff = 0

\* Producer p is at its load of the cell sequence and the load will make it
\* return QUEUE_IS_FULL (diff < 0).
AboutToReturnFull(p) ==
    /\ p_pc[p] = "load_seq"
    /\ \E diff \in PushDiff(m_data[CellIndex(p_pos[p])].sequence, p_pos[p]) : diff < 0

\* C27 as stated: at the instant a PushBack loads the sequence that makes it
\* return QUEUE_IS_FULL, head - tail = C.
C27_FullMeansHeadTailC ==
    \A p \in Producers : AboutToReturnFull(p) => m_head - m_tail = C

\* C27 amended: at that instant pos is the head and the cell still belongs
\* to position pos - C of the previous lap (reserved, or already published):
\* either that position is not yet consumed and head - tail = C, or it is
\* published, the consumer has advanced tail past it and has not yet
\* re-armed the cell, and head - tail = C - 1.
C27_FullMeansCellNotRearmed ==
    \A p \in Producers :
        AboutToReturnFull(p) =>
            /\ m_head = p_pos[p]
            /\ p_pos[p] >= C
            /\ m_data[CellIndex(p_pos[p])].sequence
                  \in {p_pos[p] - C, PublishValue(p_pos[p] - C)}
            /\ \/ m_tail = p_pos[p] - C
               \/ /\ m_tail = p_pos[p] - C + 1
                  /\ m_data[CellIndex(p_pos[p])].sequence = PublishValue(p_pos[p] - C)
                  /\ c_pc \in {"read", "store"}
                  /\ c_pos = p_pos[p] - C

\* A PushBack has returned QUEUE_IS_FULL on what it loaded from the state
\* that still stands: head - tail = C - 1, the consumer is between its
\* compare-exchange on tail and its re-arming store.
C27_Witness ==
    \E p \in Producers :
        /\ p_pc[p] = "idle"
        /\ p_ret[p] = QUEUE_IS_FULL
        /\ p_pos[p] = m_head
        /\ p_seq[p] = m_data[CellIndex(m_head)].sequence
        /\ m_head - m_tail = C - 1
        /\ c_pc = "read"
        /\ c_pos = m_head - C

\* Position pos was reserved by a successful compare-exchange on head; its
\* PushBack has executed its publishing store.
IsReserved(pos) == \E i \in DOMAIN reserved : reserved[i][1] = pos
IsPublished(pos) == \E i \in DOMAIN committed : committed[i][1] = pos

\* C28: tail never passes an unpublished position (every position below
\* tail is published, and so is the one Pop has claimed); a Pop that loads
\* the sequence of position tail while that position is not published
\* returns QUEUE_IS_EMPTY, whatever is published behind it; and the values
\* Pop has returned are those of positions 0, 1, 2, ... without a skip.
C28_HeadOfLineBlocking ==
    /\ \A pos \in 0..(m_tail - 1) : IsPublished(pos)
    /\ c_pc \in {"cas", "read", "store", "count"} => IsPublished(c_pos)
    /\ (c_pc = "load_seq" /\ ~IsPublished(c_pos)) =>
          \A diff \in PopDiff(m_data[CellIndex(c_pos)].sequence, c_pos) : diff < 0
    /\ (c_pc = "idle" /\ c_ret[1] # NONE /\ ~IsPublished(c_pos)) =>
          c_ret[1] = QUEUE_IS_EMPTY
    /\ \A k \in DOMAIN popped : popped[k][1] = k - 1

\* Producer p has left the reservation loop of its PushBack and not yet
\* returned.
PastReservation(p) == p_pc[p] \in {"write", "store", "count"}

\* C29: the successful compare-exchanges on head claim the positions
\* 0, 1, 2, ... in this order without a gap, head is their number, each
\* position is claimed once, by the producer whose element is recorded with
\* it, and no two PushBacks that have left the reservation loop hold the
\* same position.
C29_UniqueReservation ==
    /\ \A k \in DOMAIN reserved : reserved[k][1] = k - 1
    /\ Len(reserved) = m_head
    /\ \A p, q \in Producers :
          (p # q /\ PastReservation(p) /\ PastReservation(q)) => p_pos[p] # p_pos[q]
    /\ \A p \in Producers :
          PastReservation(p) =>
              /\ p_pos[p] < m_head
              /\ reserved[p_pos[p] + 1] = <<p_pos[p], p_element[p]>>
              /\ p_element[p][1] = p

\* Both producers have left the reservation loop on a later lap and stand
\* before their payload writes, the first with the later position.
C29_Witness ==
    /\ p_pc[1] = "write"
    /\ p_pc[2] = "write"
    /\ p_pos[1] = p_pos[2] + 1
    /\ p_pos[2] >= C
    /\ m_head = p_pos[1] + 1

\* C30: for every position p whose Pop has executed its re-arming store, the
\* value stored is p + C; the cell p mod C holds it until the PushBack of
\* position p + C publishes; with it the PushBack of position p + C
\* computes diff = 0, and a PushBack or a Pop of an earlier position of that
\* cell computes a diff other than 0.
C30_RearmValue ==
    \A k \in DOMAIN rearmed :
        LET p == rearmed[k]
        IN /\ RearmValue(p) = p + C
           /\ ~IsPublished(p + C) => m_data[CellIndex(p)].sequence = p + C
           /\ CellIndex(p + C) = CellIndex(p)
           /\ PushDiff(RearmValue(p), p + C) = {0}
           /\ \A q \in 0..p :
                 CellIndex(q) = CellIndex(p) =>
                     /\ 0 \notin PushDiff(RearmValue(p), q)
                     /\ 0 \notin PopDiff(RearmValue(p), q)

\* Pop has completed for position 1; a PushBack has loaded the re-armed
\* sequence 1 + C for position 1 + C and stands before its compare-exchange,
\* while the other producer, with the stale position 1, loaded the same
\* cell and went back to reload head.
C30_Witness ==
    /\ Len(rearmed) = 2
    /\ c_pc = "idle"
    /\ m_data[CellIndex(1)].sequence = 1 + C
    /\ \E p, q \in Producers :
          /\ p_pc[p] = "cas" /\ p_pos[p] = 1 + C /\ p_seq[p] = 1 + C
          /\ p_pc[q] = "load_head" /\ p_pos[q] = 1 /\ p_seq[q] = 1 + C

\* C22: when SaveBenchmarkResults has succeeded, the file holds every record
\* it held when this run of the executable began, followed by the record of
\* this run.
C22_SavePreservesRuns == h_saved => h_file = Append(h_before, h_record)

\* C23: with a --queue-size outside the switch's cases no writer and no
\* reader thread is ever spawned, no queue is constructed, the results file
\* stays as it was, and main ends with exit code 1; exit code 0 is returned
\* only after a benchmark ran to the reader's join and SaveBenchmarkResults
\* has written its record.
C23_CliValidation ==
    /\ h_args.queueSize \notin ValidQueueSizes =>
          /\ \A p \in Producers : w_st[p] = "none"
          /\ r_st = "none"
          /\ h_queue = "none"
          /\ ~h_saved
          /\ h_file = h_before
          /\ h_pc \in {"parse", "switch", "exited"}
          /\ h_pc = "exited" => h_exit = 1
    /\ h_exit = 0 =>
          /\ h_pc = "exited"
          /\ h_args.queueSize \in ValidQueueSizes
          /\ r_st = "done"
          /\ h_saved
          /\ h_record \in Range(h_file)
    /\ h_pc = "exited" <=> h_exit \in {0, 1}

\* C24: until go.set_value() no PushBack and no Pop has been called (the
\* threads that exist are waiting on the gate), and once the gate is released
\* every one of the producerCount writer threads and the reader thread has
\* been spawned.
C24_StartGate ==
    /\ ~h_gate =>
          /\ TotalCalls = 0
          /\ Quiescent
          /\ c_ret[1] = NONE
          /\ \A p \in Producers : w_st[p] \in {"none", "wait"}
          /\ r_st \in {"none", "wait"}
    /\ h_gate =>
          /\ \A p \in Writers : w_st[p] # "none"
          /\ r_st # "none"
          /\ Cardinality(Writers) = h_args.producerCount

\* The gate has just been released with two writers and the reader all
\* waiting on it.
C24_Witness ==
    /\ h_gate
    /\ h_pc = "sleep"
    /\ h_args.producerCount = 2
    /\ \A p \in Producers : w_st[p] = "wait"
    /\ r_st = "wait"
    /\ TotalCalls = 0

\* C25: when the harness emits the result record (it is at its call of
\* SaveBenchmarkResults) stop is set, the reader and every writer thread
\* have finished, and no PushBack or Pop is in progress.
C25_ShutdownOrder ==
    h_pc = "save" =>
        /\ h_stop
        /\ r_st = "done"
        /\ \A p \in Writers : w_st[p] = "done"
        /\ Quiescent

\* C26: the queue of a benchmark run is destroyed only when the reader
\* thread and every writer thread have finished, whether or not the save
\* succeeded; a thread that exists and has not finished, and every PushBack
\* or Pop in progress, has a live queue.
C26_QueueLifetime ==
    /\ h_queue = "destroyed" =>
          /\ r_st = "done"
          /\ \A p \in Writers : w_st[p] = "done"
          /\ Quiescent
    /\ (r_st \in {"wait", "loop"} \/ c_pc # "idle") => h_queue = "alive"
    /\ \A p \in Producers :
          (w_st[p] \in {"wait", "loop"} \/ p_pc[p] # "idle") => h_queue = "alive"

\* The save has failed and the queue is destroyed, after two writers made
\* their PushBack calls, the last of them returning after the reader.
C26_Witness ==
    /\ h_queue = "destroyed"
    /\ ~h_saved
    /\ h_pc = "return"
    /\ h_args.producerCount = 2
    /\ \A p \in Producers : calls[p] = 1 /\ w_st[p] = "done"
    /\ Len(popped) < Len(committed)

----------------------------------------------------------------------------
\* A capacity that is not a power of two: MpscQueue<T, 3> stands for the
\* benchmark's MpscQueue<T, 10240>.  The cell of a position is pos % C, a
\* runtime modulus, for any C.

\* Bound: PushBack calls of a run on the queue of capacity 3
MaxOddCalls == 5

NonPowerOfTwoCapacities == {3}

InitNonPowerOfTwo == InitWith(NonPowerOfTwoCapacities)

NonPowerOfTwoCall(p) ==
    /\ TotalCalls < MaxOddCalls
    /\ ProducerCall(p)

NextNonPowerOfTwo ==
    \/ \E p \in Producers : NonPowerOfTwoCall(p)
    \/ \E p \in Producers : PushBackSteps(p)
    \/ ConsumerCall
    \/ PopSteps

SpecNonPowerOfTwo == InitNonPowerOfTwo /\ [][NextNonPowerOfTwo]_vars

----------------------------------------------------------------------------
\* The cell of index i is empty, armed for a position p of that cell
\* (sequence p), or full, published for it (sequence p + 1 in the width of
\* the word: the publishing store of the last position of the word stores 0).
CellArmed(i) == m_data[i].sequence >= i /\ m_data[i].sequence % C = i % C

CellPublished(i) ==
    LET p == Wrap(m_data[i].sequence - 1)
    IN  p >= i /\ p % C = i % C

\* One step seen by the sequence of cell i: it stays, or an armed cell is
\* published (+1), or a published cell is re-armed (+(C - 1)).
C31_SequenceStep ==
    \A i \in 0..(C - 1) :
        \/ m_data'[i].sequence = m_data[i].sequence
        \/ /\ CellArmed(i)
           /\ m_data'[i].sequence = m_data[i].sequence + 1
        \/ /\ CellPublished(i)
           /\ m_data'[i].sequence = m_data[i].sequence + (C - 1)

\* C31: in every reachable state the sequence of cell i is p (armed for
\* position p) or p + 1 (published for p) for a position p >= 0 with
\* p mod C = i; the sequence of a cell never decreases, and it changes only
\* by +1 from an armed state (publish) and by +(C - 1) from a published
\* state (re-arm), so the two alternate.
C31_CellSequenceInvariant ==
    /\ [](\A i \in 0..(C - 1) : CellArmed(i) \/ CellPublished(i))
    /\ [][C31_SequenceStep]_vars

\* Cell 0 of the queue of capacity 3 has been published for position 0,
\* re-armed for position 3 and published for position 3, while cell 1 is
\* published and cell 2 is still armed for its first position.
C31_Witness ==
    /\ C = 3
    /\ m_data[0].sequence = C + 1
    /\ m_data[1].sequence = 2
    /\ m_data[2].sequence = 2
    /\ Len(rearmed) = 1

\* What the threads share: the indices, the cells and the counters.
SharedState == <<m_head, m_tail, m_data, m_pushCount, m_popCount>>

\* Producer p has reserved a position in its current call (its
\* compare-exchange succeeded) and has not returned yet; the consumer has
\* advanced tail in its current call and has not returned yet.
Committing(p) == p_pc[p] \in {"write", "store", "count"}

ConsumerCommitting == c_pc \in {"read", "store", "count"}

\* The result ret is that of a Pop that ended at its statement
\* "return QueueState::QUEUE_IS_EMPTY;": the error, or, as the std::expected
\* is built from the bare enumerator, the value T(QUEUE_IS_EMPTY).
ReturnsEmpty(ret) == ret[1] = QUEUE_IS_EMPTY \/ ret = <<SUCCESS, EmptyAsValue>>

\* One step seen by the shared state: the step on which a call returns
\* QUEUE_IS_FULL or QUEUE_IS_EMPTY changes nothing and is not taken by a
\* call that has reserved; a step that changes the shared state is taken
\* by a call that has reserved (or reserves with this step); and such a
\* call can only return SUCCESS.
C32_Step ==
    /\ \A p \in Producers :
          /\ (p_ret[p] = NONE /\ p_ret'[p] = QUEUE_IS_FULL) =>
                (~Committing(p) /\ SharedState' = SharedState)
          /\ (Committing(p) /\ ~Committing(p)') => p_ret'[p] = SUCCESS
    /\ (c_ret[1] = NONE /\ ReturnsEmpty(c_ret')) =>
          (~ConsumerCommitting /\ SharedState' = SharedState)
    /\ (ConsumerCommitting /\ ~ConsumerCommitting') =>
          (c_ret'[1] = SUCCESS /\ ~ReturnsEmpty(c_ret'))
    /\ SharedState' # SharedState =>
          \/ \E p \in Producers :
                /\ p_pc'[p] # p_pc[p]
                /\ Committing(p) \/ Committing(p)'
          \/ /\ c_pc' # c_pc
             /\ ConsumerCommitting \/ ConsumerCommitting'

\* C32: a PushBack that returns QUEUE_IS_FULL and a Pop that returns
\* QUEUE_IS_EMPTY (that ends at the return statement of its failing
\* branch) have changed neither head, tail, a cell's sequence or
\* payload, push_count nor pop_count: every change of these is made by a
\* call that reserved a position, and such a call returns SUCCESS; the
\* element of a PushBack that returned QUEUE_IS_FULL is in no cell and was
\* never reserved.
C32_FailedCallsHaveNoEffect ==
    /\ [][C32_Step]_vars
    /\ [](\A p \in Producers :
            (p_pc[p] = "idle" /\ p_ret[p] = QUEUE_IS_FULL) =>
                /\ ~WasReserved(p_element[p])
                /\ \A i \in 0..(C - 1) : m_data[i].data # p_element[p])

\* A PushBack has returned QUEUE_IS_FULL and a Pop QUEUE_IS_EMPTY while the
\* other producer is in the middle of a successful PushBack.
C32_Witness ==
    /\ \E p, q \in Producers :
          /\ p_pc[p] = "idle" /\ p_ret[p] = QUEUE_IS_FULL
          /\ p_pc[q] = "store"
    /\ c_pc = "idle"
    /\ ReturnsEmpty(c_ret)
    /\ m_popCount = 1

----------------------------------------------------------------------------
\* Producer threads that call PushBack a bounded number of times and a
\* consumer thread that calls Pop again and again, each scheduled again and
\* again while it has a step to take.

\* Bound: PushBack calls of a run with the polling consumer
MaxFairCalls == 3

DeliveryCall(p) ==
    /\ TotalCalls < MaxFairCalls
    /\ ProducerCall(p)

ProducerThread(p) == DeliveryCall(p) \/ PushBackSteps(p)

ConsumerThread == ConsumerCall \/ PopSteps

NextDelivery ==
    \/ \E p \in Producers : ProducerThread(p)
    \/ ConsumerThread

SpecDelivery ==
    /\ Init
    /\ [][NextDelivery]_vars
    /\ \A p \in Producers : WF_vars(ProducerThread(p))
    /\ WF_vars(ConsumerThread)

\* The elements the producers can pass to PushBack.
Elements == {<<p, k>> : p \in Producers, k \in 1..MaxFairCalls}

\* The PushBack of element e has returned SUCCESS.
ReturnedSuccess(e) ==
    /\ \E i \in DOMAIN committed : committed[i][2] = e
    /\ \/ calls[e[1]] > e[2]
       \/ calls[e[1]] = e[2] /\ p_pc[e[1]] = "idle"

\* A Pop has returned element e.
Delivered(e) == \E i \in DOMAIN popped : popped[i][2] = e

\* C33: when every thread is scheduled again and again and the consumer
\* keeps calling Pop, every element whose PushBack returned SUCCESS is
\* eventually returned by a Pop.
C33_EventualDelivery ==
    \A e \in Elements : ReturnedSuccess(e) ~> Delivered(e)

\* The element of position 1 was published before the one of position 0,
\* so it waited behind an unpublished cell; both PushBacks returned SUCCESS
\* and both elements have been returned by Pops.
C33_Witness ==
    /\ Len(committed) >= 2
    /\ committed[1][1] = 1
    /\ Len(popped) = 2
    /\ \A i \in 1..2 : ReturnedSuccess(committed[i][2]) /\ Delivered(committed[i][2])

\* C34: on a queue whose capacity C >= 2 is not a power of two, with
\* counters that do not wrap, the properties of the power-of-two queue hold
\* unchanged: 0 <= head - tail <= C and at most C unread elements; a
\* producer writes a cell only after the Pop of the previous lap re-armed
\* it, and a committed element stays in its cell until Pop reads it; Pop
\* returns the elements in the order of their positions; and the positions
\* between tail and head occupy pairwise different cells pos % C.
C34_NonPowerOfTwoCapacity ==
    (C >= 2 /\ ~IsPowerOfTwo(C) /\ wordBits = FullWidth) =>
        /\ C5_CapacityBound
        /\ C4_NeverOverwritesUnread
        /\ C3_NoDropNoDuplicate
        /\ C1_FifoByReservationOrder
        /\ \A k \in DOMAIN popped : popped[k][1] = k - 1
        /\ \A a, b \in m_tail..(m_head - 1) :
              CellIndex(a) = CellIndex(b) => a = b

\* The queue of capacity 3 is full on its second lap: position 3 was
\* written to cell 0 after the Pop of position 0, three elements are
\* unread, and a PushBack has returned QUEUE_IS_FULL.
C34_Witness ==
    /\ C = 3
    /\ ~IsPowerOfTwo(C)
    /\ m_head = 4
    /\ m_tail = 1
    /\ Len(committed) = 4
    /\ \E p \in Producers : p_pc[p] = "idle" /\ p_ret[p] = QUEUE_IS_FULL
    /\ c_pc = "idle"

\* No Pop has been called yet.
NoPopYet == c_pc = "idle" /\ c_ret = <<NONE, DefaultT>> /\ popped = <<>>

\* C35: on MpscQueue<T, 1>, when a thread has made two PushBack calls one
\* after the other before any Pop, the second has returned QUEUE_IS_FULL and
\* the first value is still in the cell; and the Pop that follows, once it
\* has returned, has returned the first value.
C35_CapacityOneNeverOverwrites ==
    \A p \in Producers :
        (C = 1 /\ calls[p] = 2 /\ TotalCalls = 2 /\ p_pc[p] = "idle") =>
            /\ NoPopYet =>
                  /\ p_ret[p] = QUEUE_IS_FULL
                  /\ m_data[0].data = <<p, 1>>
            /\ (c_pc = "idle" /\ c_ret[1] # NONE) => c_ret = <<SUCCESS, <<p, 1>>>>

\* C36: push_count is at most the number of publishing sequence stores made
\* so far and pop_count at most the number of re-arming sequence stores:
\* each counter lags its stores by the calls that have stored and not yet
\* counted.
C36_TelemetryNeverOverCounts ==
    /\ m_pushCount <= Len(committed)
    /\ m_popCount <= Len(rearmed)
    /\ m_pushCount = Len(committed) - Cardinality({p \in Producers : p_pc[p] = "count"})
    /\ m_popCount = Len(rearmed) - (IF c_pc = "count" THEN 1 ELSE 0)

\* Both counters lag: a PushBack and a Pop have made their sequence stores
\* and not yet their fetch_add, after earlier calls were counted.
C36_Witness ==
    /\ m_pushCount >= 1
    /\ m_popCount >= 1
    /\ m_pushCount < Len(committed)
    /\ m_popCount < Len(rearmed)

\* One step seen by head and tail: head stays, or the successful
\* compare-exchange of a PushBack that loaded the current head adds one to
\* it; tail stays, or the successful compare-exchange of Pop adds one to it.
C37_IndexStep ==
    /\ \/ m_head' = m_head
       \/ /\ m_head' = Wrap(m_head + 1)
          /\ \E p \in Producers :
                /\ p_pc[p] = "cas" /\ p_pos[p] = m_head
                /\ p_pc'[p] = "write"
    /\ \/ m_tail' = m_tail
       \/ /\ m_tail' = Wrap(m_tail + 1)
          /\ c_pc = "cas" /\ c_pos = m_tail
          /\ c_pc' = "read"
    /\ wordBits = FullWidth => (m_head' >= m_head /\ m_tail' >= m_tail)

\* C37: in every step head and tail each stay the same or increase by
\* exactly 1 (the indices of a run stay below 2^64); head changes only by a
\* successful compare-exchange in PushBack and tail only by a successful
\* compare-exchange in Pop; neither is reset or decremented; so head is the
\* number of reservations and tail the number of tail advances so far.
C37_HeadTailMonotone ==
    /\ [][C37_IndexStep]_vars
    /\ [](m_head = Len(reserved))
    /\ [](m_tail = Len(rearmed) + (IF ConsumerCommitting /\ c_pc # "count" THEN 1 ELSE 0))

\* head and tail have advanced several times while a producer lost its
\* compare-exchange to the other one and reloaded head.
C37_Witness ==
    /\ m_head = 4
    /\ m_tail = 3
    /\ \E p \in Producers :
          p_pc[p] = "load_seq" /\ p_pos[p] = m_head /\ p_seq[p] = m_head - 1

----------------------------------------------------------------------------
\* One run of the benchmark executable, from the start of main to its
\* return, with every thread scheduled again and again while it has a step
\* to take.

MainThread ==
    \/ Main_ParseArgs
    \/ Main_Switch
    \/ RunBenchmark_Construct
    \/ RunBenchmark_SpawnWriter
    \/ RunBenchmark_SpawnReader
    \/ RunBenchmark_Release
    \/ RunBenchmark_SetStop
    \/ RunBenchmark_JoinReader
    \/ RunBenchmark_Save
    \/ RunBenchmark_JoinWriters
    \/ RunBenchmark_Destroy
    \/ Main_Return

WriterThread(p) ==
    \/ writer_Wait(p)
    \/ writer_PushBack(p)
    \/ PushBackSteps(p)
    \/ writer_Return(p)

ReaderThread ==
    \/ reader_Wait
    \/ reader_Pop
    \/ reader_PopSteps
    \/ reader_Return

NextBenchRun ==
    \/ MainThread
    \/ \E p \in Producers : WriterThread(p)
    \/ ReaderThread

\* The run is started with any number of producers, none included.
InitBenchRun ==
    /\ InitQueue(Capacities)
    /\ StartOfMainWith(BenchArgs \cup NoProducerArgs, 1, <<>>)
    /\ NoLegacy

SpecBenchFair ==
    /\ InitBenchRun
    /\ [][NextBenchRun]_vars
    /\ WF_vars(MainThread)
    /\ \A p \in Producers : WF_vars(WriterThread(p))
    /\ WF_vars(ReaderThread)

\* C38: once the main thread has set stop, under fair scheduling the reader
\* and every writer leave their loops (the PushBack or Pop a thread is in
\* comes to its end) and RunBenchmark returns.
C38_HarnessTerminates ==
    h_stop ~> (/\ r_st = "done"
               /\ \A p \in Writers : w_st[p] = "done"
               /\ h_pc \in {"return", "exited"})

\* stop was set while the reader and two writers were at work; they have all
\* left their loops, the reader after a Pop that held a value, and
\* RunBenchmark has returned.
C38_Witness ==
    /\ h_stop
    /\ h_args.producerCount = 2
    /\ Writers = Producers
    /\ r_st = "done"
    /\ \A p \in Writers : w_st[p] = "done"
    /\ h_pc = "return"
    /\ \A p \in Writers : calls[p] >= 1
    /\ r_ret >= 1

----------------------------------------------------------------------------
\* The legacy queue

\* The pending elements as the ring holds them, oldest first.
LegacyPending == [i \in 1..l_size |-> l_data[(l_tail + i - 1) % l_capacity]]

\* C39: on the legacy queue used by one thread, Size() never exceeds C; a
\* PushBack on a full queue drops the oldest element and keeps the rest;
\* the ring holds the last Size() pushed elements in push order, so after
\* n >= C PushBacks with no Pop in between it holds exactly the last C
\* pushed elements; and every Pop returns the oldest pending element, or
\* QUEUE_IS_EMPTY when there is none.
C39_LegacyOverwriteOnFull ==
    LegacyAlive =>
        /\ Size <= l_capacity
        /\ Size = Len(l_fifo)
        /\ LegacyPending = l_fifo
        /\ LegacyPending = [i \in 1..l_size |-> l_count - l_size + i]
        /\ l_streak >= l_capacity => Size = l_capacity
        /\ l_ret.op = "pop" => <<l_ret.state>> \o l_ret.value = l_ret.expect

\* The queue of capacity 3 overflowed (4 pushes of 1..4), and the third
\* Pop after that has returned 4: the Pops returned 2, 3, 4.
C39_Witness ==
    /\ l_capacity = 3
    /\ l_count = 4
    /\ l_ret = [op |-> "pop", state |-> SUCCESS, value |-> <<4>>, expect |-> <<SUCCESS, 4>>]
    /\ Size = 0
    /\ l_head = 1
    /\ l_tail = 1

\* C40: from every reachable state of the legacy queue used by one thread,
\* Flush() returns exactly the Size() pending elements, oldest first, and
\* leaves the queue empty: Size() is 0 and head and tail are equal, so that
\* the next Pop returns QUEUE_IS_EMPTY.
C40_LegacyFlush ==
    l_ret.op = "flush" =>
        /\ l_ret.state = SUCCESS
        /\ <<l_ret.state>> \o l_ret.value = l_ret.expect
        /\ Size = 0
        /\ l_head = l_tail
        /\ l_fifo = <<>>

====
